---- MODULE Spec2Model ----
(***************************************************************************)
(* Model of the queue-client job queue: the job envelope, the in-memory    *)
(* adapter (adapters/memory.ts), the Postgres adapter (adapters/           *)
(* postgres.ts with the SQL of schema.ts) and the queue functions of       *)
(* queue.ts (publishJob, claimNextJob, completeJob, failJob).              *)
(*                                                                         *)
(* Time is counted in seconds.  Timestamps are naturals, NullT is the      *)
(* null timestamp, NullS the null string.                                  *)
(***************************************************************************)
EXTENDS Integers, Sequences, FiniteSets, TLC

VARIABLES
    adapter,    \* which QueueAdapter backs the queue: "memory" or "postgres"
    clock,      \* wall clock (new Date() / NOW()), in seconds
    jobs,       \* the stored envelopes, in insertion order (Map / table)
    tx,         \* per worker: the Postgres statement it has in flight
    last,       \* the most recent call and what it returned
    hist,       \* per job: how often it was claimed (history, not program state)
    conn,       \* PostgresAdapter's pool and initialized flag: "new" (constructed),
                \* "ready" (initialized) or "closed" (pool ended)
    twin,       \* the table of a Postgres adapter that is given the same calls as
                \* a MemoryAdapter holding jobs (side-by-side runs only)
    initialized \* QueueClient's initialized flag

vars == <<adapter, clock, jobs, tx, last, hist, conn, twin, initialized>>

----------------------------------------------------------------------------
(* Bounds of the model *)

MaxJobs == 2            \* jobs published in one behaviour of Spec
MaxTime == 60           \* the clock of Spec stops advancing here
TickSeconds == 30       \* the clock advances in steps of this many seconds
ConcJobs == 1           \* jobs published in one behaviour of SpecConc
ConcMaxTime == 30       \* the clock of SpecConc stops advancing here
RaceJobs == 2           \* rows in the table of SpecRace
RaceClaimers == 3       \* workers that claim at once in SpecRace
OrderJobs == 3          \* jobs published in one behaviour of SpecOrder
OrderMaxTime == 60      \* the clock of SpecOrder stops advancing here
RetryJobs == 1          \* jobs published in one behaviour of SpecRetry
RetryMaxTime == 90      \* the clock of SpecRetry stops advancing here
ApiJobs == 1            \* jobs published in one behaviour of SpecApi
ApiMaxTime == 30        \* the clock of SpecApi stops advancing here

(* Program constants *)

BackoffSeconds == 30    \* INTERVAL '30 seconds' / 30_000 ms
DefaultPriority == 0
DefaultMaxAttempts == 3

NullT == 0 - 1
NullS == "<null>"
Absent == "<absent>"

Adapters == {"memory", "postgres"}
Workers == {"w1", "w2"}
Types == {"x", "y"}
Errors == {"boom"}
Statuses == {"pending", "processing", "completed", "failed"}

Min(a, b) == IF a <= b THEN a ELSE b

\* An optional input field is the empty set (omitted) or a singleton.
OrElse(opt, d) == IF opt = {} THEN d ELSE CHOOSE v \in opt : TRUE

----------------------------------------------------------------------------
(* Payloads.  A payload is a JavaScript value: its kind (typeof / Array.    *)
(* isArray) and, for an object, its fields.  A field value is written as    *)
(* text; a Date is written "Date:" and its ISO form.                        *)

Payload(kind, fields) == [ kind |-> kind, fields |-> fields ]

JsonPayload == Payload("object", [to |-> "u@e.com"])
DatePayload == Payload("object", [at |-> "Date:2024-01-01T00:00:00.000Z"])
ArrayPayload == Payload("array", [to |-> "u@e.com"])

Dates == { "Date:2024-01-01T00:00:00.000Z" }

\* Date.prototype.toJSON: the ISO string
ToIso(date) == "2024-01-01T00:00:00.000Z"

(* JSON.stringify(envelope.payload) written to the JSONB column and parsed  *)
(* again by the driver when the row is read: a Date comes back as a string  *)
JsonRoundTrip(payload) ==
    [ payload EXCEPT !.fields =
        [ k \in DOMAIN payload.fields |->
            IF payload.fields[k] \in Dates THEN ToIso(payload.fields[k])
                                           ELSE payload.fields[k] ] ]

----------------------------------------------------------------------------
(* queue.ts: publishJob builds the envelope handed to adapter.insert *)

\* publishJob always generating the trace_id
NewEnvelopeFreshTrace(id, input, now) ==
    [ job_id        |-> id,
      trace_id      |-> "uuid",
      type          |-> input.type,
      payload       |-> input.payload,
      status        |-> "pending",
      priority      |-> OrElse(input.priority, DefaultPriority),
      attempts      |-> 0,
      max_attempts  |-> OrElse(input.max_attempts, DefaultMaxAttempts),
      created_at    |-> now,
      updated_at    |-> now,
      scheduled_for |-> OrElse(input.scheduled_for, now),
      started_at    |-> NullT,
      completed_at  |-> NullT,
      failed_at     |-> NullT,
      error         |-> NullS,
      worker_id     |-> NullS,
      result        |-> Absent ]

NewEnvelope(id, input, now) ==
    [ job_id        |-> id,
      trace_id      |-> OrElse(input.trace_id, "uuid"),
      type          |-> input.type,
      payload       |-> input.payload,
      status        |-> "pending",
      priority      |-> OrElse(input.priority, DefaultPriority),
      attempts      |-> 0,
      max_attempts  |-> OrElse(input.max_attempts, DefaultMaxAttempts),
      created_at    |-> now,
      updated_at    |-> now,
      scheduled_for |-> OrElse(input.scheduled_for, now),
      started_at    |-> NullT,
      completed_at  |-> NullT,
      failed_at     |-> NullT,
      error         |-> NullS,
      worker_id     |-> NullS,
      result        |-> Absent ]

(* adapters/memory.ts: insert stores the envelope it is given *)
MemInsert(envelope) == envelope

(* schema.ts getInsertJobSQL + table defaults: the row takes type, payload, *)
(* priority, max_attempts, scheduled_for and trace_id from the envelope;    *)
(* id, status, attempts and the other timestamps are the column defaults.   *)
PgInsertRow(id, envelope, now) ==
    [ job_id        |-> id,
      trace_id      |-> envelope.trace_id,
      type          |-> envelope.type,
      payload       |-> JsonRoundTrip(envelope.payload),
      status        |-> "pending",
      priority      |-> envelope.priority,
      attempts      |-> 0,
      max_attempts  |-> envelope.max_attempts,
      created_at    |-> now,
      updated_at    |-> now,
      scheduled_for |-> envelope.scheduled_for,
      started_at    |-> NullT,
      completed_at  |-> NullT,
      failed_at     |-> NullT,
      error         |-> NullS,
      worker_id     |-> NullS,
      result        |-> Absent ]

----------------------------------------------------------------------------
(* Eligibility: the filter of MemoryAdapter.claim and the WHERE clause of  *)
(* the inner SELECT of getClaimJobSQL.  types = {} is "no type filter".    *)

\* the claim filter without the scheduled_for test
MemEligibleUngated(job, now, types) ==
    /\ job.status = "pending"
    /\ ~(types # {} /\ job.type \notin types)

\* the claim filter that never takes a job that was claimed before
MemEligibleFirstAttemptOnly(job, now, types) ==
    /\ job.status = "pending"
    /\ job.attempts = 0
    /\ ~(job.scheduled_for > now)
    /\ ~(types # {} /\ job.type \notin types)

MemEligible(job, now, types) ==
    /\ job.status = "pending"
    /\ ~(job.scheduled_for > now)
    /\ ~(types # {} /\ job.type \notin types)

\* the inner SELECT built without AND type = ANY($2)
PgEligibleAnyType(row, now, types) ==
    /\ row.status = "pending"
    /\ row.scheduled_for <= now

\* the WHERE clause with a lease: a row that has been processing for
\* BackoffSeconds can be claimed again
PgEligibleLeaseExpired(row, now, types) ==
    /\ \/ row.status = "pending" /\ row.scheduled_for <= now
       \/ row.status = "processing" /\ row.started_at + BackoffSeconds <= now
    /\ (types # {} => row.type \in types)

PgEligible(row, now, types) ==
    /\ row.status = "pending"
    /\ row.scheduled_for <= now
    /\ (types # {} => row.type \in types)

\* the comparator with the priorities subtracted the other way round
MemCompareAscending(a, b) ==
    IF b.priority # a.priority
        THEN a.priority - b.priority
        ELSE a.scheduled_for - b.scheduled_for

(* The comparator of candidates.sort in MemoryAdapter.claim *)
MemCompare(a, b) ==
    IF b.priority # a.priority
        THEN b.priority - a.priority
        ELSE a.scheduled_for - b.scheduled_for

(* Array.prototype.sort is stable: x goes behind every element that does   *)
(* not sort after it.                                                      *)
RECURSIVE MemSortInsert(_, _)
MemSortInsert(s, x) ==
    IF s = <<>> THEN <<x>>
    ELSE IF MemCompare(Head(s), x) > 0 THEN <<x>> \o s
    ELSE <<Head(s)>> \o MemSortInsert(Tail(s), x)

RECURSIVE MemSort(_)
MemSort(s) ==
    IF s = <<>> THEN <<>>
    ELSE MemSortInsert(MemSort(SubSeq(s, 1, Len(s) - 1)), s[Len(s)])

(* the for-loop of MemoryAdapter.claim: candidates in Map order *)
MemCandidates(store, now, types) ==
    SelectSeq(store, LAMBDA job : MemEligible(job, now, types))

\* MemoryAdapter.claim that also clears the error of the last failure
MemClaimedClearsError(target, workerName, now) ==
    [target EXCEPT !.status = "processing",
                   !.worker_id = workerName,
                   !.started_at = now,
                   !.attempts = target.attempts + 1,
                   !.error = NullS,
                   !.updated_at = now]

(* the envelope MemoryAdapter.claim writes back *)
MemClaimed(target, workerName, now) ==
    [target EXCEPT !.status = "processing",
                   !.worker_id = workerName,
                   !.started_at = now,
                   !.attempts = target.attempts + 1,
                   !.updated_at = now]

\* MemoryAdapter.complete that also stamps created_at
MemCompletedStampsCreated(job, result, now) ==
    [job EXCEPT !.status = "completed",
                !.result = OrElse(result, NullS),
                !.created_at = now,
                !.completed_at = now,
                !.updated_at = now]

(* the envelope MemoryAdapter.complete writes back *)
MemCompleted(job, result, now) ==
    [job EXCEPT !.status = "completed",
                !.result = OrElse(result, NullS),
                !.completed_at = now,
                !.updated_at = now]

\* MemoryAdapter.fail with the backoff taken from the attempts before the claim
MemFailedBackoffBeforeClaim(job, error, now) ==
    IF job.attempts >= job.max_attempts
        THEN [job EXCEPT !.status = "failed",
                         !.failed_at = now,
                         !.error = error,
                         !.updated_at = now]
        ELSE [job EXCEPT !.status = "pending",
                         !.error = error,
                         !.worker_id = NullS,
                         !.scheduled_for =
                             now + (job.attempts - 1) * BackoffSeconds,
                         !.updated_at = now]

\* MemoryAdapter.fail comparing with > instead of >=
MemFailedOffByOne(job, error, now) ==
    IF job.attempts > job.max_attempts
        THEN [job EXCEPT !.status = "failed",
                         !.failed_at = now,
                         !.error = error,
                         !.updated_at = now]
        ELSE [job EXCEPT !.status = "pending",
                         !.error = error,
                         !.worker_id = NullS,
                         !.scheduled_for = now + job.attempts * BackoffSeconds,
                         !.updated_at = now]

\* MemoryAdapter.fail writing failed_at in both branches
MemFailedStampsRequeue(job, error, now) ==
    IF job.attempts >= job.max_attempts
        THEN [job EXCEPT !.status = "failed",
                         !.failed_at = now,
                         !.error = error,
                         !.updated_at = now]
        ELSE [job EXCEPT !.status = "pending",
                         !.failed_at = now,
                         !.error = error,
                         !.worker_id = NullS,
                         !.scheduled_for = now + job.attempts * BackoffSeconds,
                         !.updated_at = now]

(* the envelope MemoryAdapter.fail writes back *)
MemFailed(job, error, now) ==
    IF job.attempts >= job.max_attempts
        THEN [job EXCEPT !.status = "failed",
                         !.failed_at = now,
                         !.error = error,
                         !.updated_at = now]
        ELSE [job EXCEPT !.status = "pending",
                         !.error = error,
                         !.worker_id = NullS,
                         !.scheduled_for = now + job.attempts * BackoffSeconds,
                         !.updated_at = now]

----------------------------------------------------------------------------
(* schema.ts: the SET clauses of the three UPDATE statements *)

\* the claim UPDATE without worker_id = $1
PgClaimSetNoWorker(row, workerName, now) ==
    [row EXCEPT !.status = "processing",
                !.started_at = now,
                !.updated_at = now,
                !.attempts = row.attempts + 1]

PgClaimSet(row, workerName, now) ==
    [row EXCEPT !.status = "processing",
                !.started_at = now,
                !.updated_at = now,
                !.worker_id = workerName,
                !.attempts = row.attempts + 1]

\* the complete UPDATE with worker_id = NULL added
PgCompleteSetClearsWorker(row, now) ==
    [row EXCEPT !.status = "completed",
                !.completed_at = now,
                !.updated_at = now,
                !.worker_id = NullS]

PgCompleteSet(row, now) ==
    [row EXCEPT !.status = "completed",
                !.completed_at = now,
                !.updated_at = now]

\* the fail UPDATE with attempts = attempts + 1 added
PgFailSetCountsAttempt(row, error, now) ==
    [row EXCEPT !.status = IF row.attempts >= row.max_attempts
                               THEN "failed" ELSE "pending",
                !.failed_at = IF row.attempts >= row.max_attempts
                                  THEN now ELSE row.failed_at,
                !.error = error,
                !.updated_at = now,
                !.attempts = row.attempts + 1,
                !.worker_id = IF row.attempts >= row.max_attempts
                                  THEN row.worker_id ELSE NullS,
                !.scheduled_for = IF row.attempts < row.max_attempts
                                      THEN now + row.attempts * BackoffSeconds
                                      ELSE row.scheduled_for]

\* the fail UPDATE with > for >= and <= for < in its CASE conditions
PgFailSetOffByOne(row, error, now) ==
    [row EXCEPT !.status = IF row.attempts > row.max_attempts
                               THEN "failed" ELSE "pending",
                !.failed_at = IF row.attempts > row.max_attempts
                                  THEN now ELSE row.failed_at,
                !.error = error,
                !.updated_at = now,
                !.worker_id = IF row.attempts > row.max_attempts
                                  THEN row.worker_id ELSE NullS,
                !.scheduled_for = IF row.attempts <= row.max_attempts
                                      THEN now + row.attempts * BackoffSeconds
                                      ELSE row.scheduled_for]

\* the fail UPDATE with worker_id = NULL in both branches
PgFailSetClearsWorker(row, error, now) ==
    [row EXCEPT !.status = IF row.attempts >= row.max_attempts
                               THEN "failed" ELSE "pending",
                !.failed_at = IF row.attempts >= row.max_attempts
                                  THEN now ELSE row.failed_at,
                !.error = error,
                !.updated_at = now,
                !.worker_id = NullS,
                !.scheduled_for = IF row.attempts < row.max_attempts
                                      THEN now + row.attempts * BackoffSeconds
                                      ELSE row.scheduled_for]

PgFailSet(row, error, now) ==
    [row EXCEPT !.status = IF row.attempts >= row.max_attempts
                               THEN "failed" ELSE "pending",
                !.failed_at = IF row.attempts >= row.max_attempts
                                  THEN now ELSE row.failed_at,
                !.error = error,
                !.updated_at = now,
                !.worker_id = IF row.attempts >= row.max_attempts
                                  THEN row.worker_id ELSE NullS,
                !.scheduled_for = IF row.attempts < row.max_attempts
                                      THEN now + row.attempts * BackoffSeconds
                                      ELSE row.scheduled_for]

(* ORDER BY priority DESC, scheduled_for ASC: a sorts strictly before b *)
PgBefore(a, b) ==
    \/ a.priority > b.priority
    \/ a.priority = b.priority /\ a.scheduled_for < b.scheduled_for

----------------------------------------------------------------------------
(* The store: a sequence of envelopes in insertion order *)

JobIds(store) == {store[i].job_id : i \in 1..Len(store)}

\* index of the envelope with this job_id, 0 when there is none
IndexOf(store, id) ==
    IF id \in JobIds(store)
        THEN CHOOSE i \in 1..Len(store) : store[i].job_id = id
        ELSE 0

\* crypto.randomUUID() / gen_random_uuid(): an id no stored job has
FreshId(store) == Len(store) + 1

NoRet == <<>>
Ret(envelope) == <<envelope>>

\* A call as recorded in last: the operation, the type filter of a claim and
\* the envelope the call returned (NoRet: it returned null).  For a call that
\* returned an envelope also the worker name and error it was given; for
\* complete and fail the job_id that was passed.
Call(op, types, id, worker, error, ret) ==
    [ op |-> op, types |-> types, job_id |-> id, worker |-> worker,
      error |-> error, ret |-> ret ]

Returned(op, types, id, worker, error, envelope) ==
    Call(op, types, id, worker, error, Ret(envelope))

ReturnedNull(op, types, id) == Call(op, types, id, NullS, NullS, NoRet)

\* A statement a worker has sent to Postgres: where it stands (pc), the
\* transaction's NOW(), the rows its snapshot selected and has not examined
\* yet, its parameters, the row it holds locked, and what it returned.
Tx(pc, op, now, cands, types, id, target, error, ret) ==
    [ pc |-> pc, op |-> op, now |-> now, cands |-> cands, types |-> types,
      job_id |-> id, target |-> target, error |-> error, ret |-> ret ]

NoTx == Tx("idle", "none", 0, <<>>, {}, 0, 0, NullS, NoRet)

\* history of one job: successful claims, successful claims since it last became
\* pending, successful fails, and the errors given to them, in order
NoHist == [ claims |-> 0, open |-> 0, fails |-> 0, errors |-> <<>> ]

----------------------------------------------------------------------------
(* Inputs *)

PublishInput(type, priority, max_attempts) ==
    [ type |-> type, payload |-> JsonPayload, priority |-> priority,
      max_attempts |-> max_attempts, scheduled_for |-> {}, trace_id |-> {} ]

PublishInputs ==
    { PublishInput("x", {}, {1}),
      PublishInput("y", {10}, {2}) }

\* scheduled_for is passed as a date: the publish time plus a delay
SchedDelays == {60}

TypeFilters == {{}, {"y"}}
Results == {{}}

\* job ids a caller may pass: every stored id and one that is not stored
TargetIds == 1..(Len(jobs) + 1)

----------------------------------------------------------------------------
(* The adapters, called one operation at a time *)

(* MemoryAdapter.claim: <<index of the claimed job>> or <<>> *)
MemClaimTarget(store, now, types) ==
    LET candidates == MemCandidates(store, now, types)
    IN  IF Len(candidates) = 0 THEN <<>>
        ELSE <<IndexOf(store, MemSort(candidates)[1].job_id)>>

(* getClaimJobSQL run alone: the rows the inner SELECT may return first.    *)
(* Rows that tie on both sort keys come in an order the SQL leaves open.    *)
PgClaimTargets(store, now, types) ==
    { i \in 1..Len(store) :
        /\ PgEligible(store[i], now, types)
        /\ \A k \in 1..Len(store) :
              PgEligible(store[k], now, types) => ~PgBefore(store[k], store[i]) }

\* complete/fail guarded by existence only
MemIsProcessingAnyStatus(store, id) == IndexOf(store, id) # 0

\* the UPDATE without AND status = 'processing'
PgIsProcessingAnyStatus(store, id) ==
    \E i \in 1..Len(store) : store[i].job_id = id

(* the guards of complete and fail: the job exists and is processing *)
MemIsProcessing(store, id) ==
    LET i == IndexOf(store, id)
    IN  ~(i = 0 \/ store[i].status # "processing")

PgIsProcessing(store, id) ==
    \E i \in 1..Len(store) :
        store[i].job_id = id /\ store[i].status = "processing"

IsProcessing(store, id) ==
    IF adapter = "memory" THEN MemIsProcessing(store, id)
                          ELSE PgIsProcessing(store, id)

Claimed(job, workerName, now) ==
    IF adapter = "memory" THEN MemClaimed(job, workerName, now)
                          ELSE PgClaimSet(job, workerName, now)

Completed(job, result, now) ==
    IF adapter = "memory" THEN MemCompleted(job, result, now)
                          ELSE PgCompleteSet(job, now)

Failed(job, error, now) ==
    IF adapter = "memory" THEN MemFailed(job, error, now)
                          ELSE PgFailSet(job, error, now)

ClaimTargets(store, now, types) ==
    IF adapter = "memory"
        THEN {t[1] : t \in {MemClaimTarget(store, now, types)} \ {<<>>}}
        ELSE PgClaimTargets(store, now, types)

----------------------------------------------------------------------------
(* Operations of the queue, each call awaited before the next one starts *)

Init ==
    /\ adapter \in Adapters
    /\ conn = "ready"
    /\ initialized = TRUE
    /\ twin = <<>>
    /\ clock = 0
    /\ jobs = <<>>
    /\ tx = [w \in Workers |-> NoTx]
    /\ last = ReturnedNull("init", {}, 0)
    /\ hist = <<>>

(* publishJob -> adapter.insert *)
PublishOp(maxJobs, input) ==
    /\ Len(jobs) < maxJobs
    /\ LET envelope == NewEnvelope(FreshId(jobs), input, clock)
           stored == IF adapter = "memory"
                         THEN MemInsert(envelope)
                         ELSE PgInsertRow(FreshId(jobs), envelope, clock)
       IN  /\ jobs' = Append(jobs, stored)
           /\ hist' = Append(hist, NoHist)
           /\ last' = Returned("publish", {}, stored.job_id, NullS, NullS, stored)
    /\ UNCHANGED <<twin, conn, adapter, initialized, clock, tx>>

(* claimNextJob -> adapter.claim *)
ClaimOp(workerName, types) ==
    /\ IF ClaimTargets(jobs, clock, types) = {}
          THEN /\ last' = ReturnedNull("claim", types, 0)
               /\ UNCHANGED <<jobs, hist>>
          ELSE \E i \in ClaimTargets(jobs, clock, types) :
               LET claimed == Claimed(jobs[i], workerName, clock)
               IN  /\ jobs' = [jobs EXCEPT ![i] = claimed]
                   /\ hist' = [hist EXCEPT ![i].claims = @ + 1,
                                           ![i].open = @ + 1]
                   /\ last' = Returned("claim", types, claimed.job_id,
                                       workerName, NullS, claimed)
    /\ UNCHANGED <<twin, conn, adapter, initialized, clock, tx>>

(* completeJob -> adapter.complete *)
CompleteOp(id, result) ==
    /\ IF ~IsProcessing(jobs, id)
          THEN /\ last' = ReturnedNull("complete", {}, id)
               /\ UNCHANGED <<jobs, hist>>
          ELSE LET i == IndexOf(jobs, id)
                   updated == Completed(jobs[i], result, clock)
               IN  /\ jobs' = [jobs EXCEPT ![i] = updated]
                   /\ last' = Returned("complete", {}, id, NullS, NullS, updated)
                   /\ UNCHANGED hist
    /\ UNCHANGED <<twin, conn, adapter, initialized, clock, tx>>

(* failJob -> adapter.fail *)
FailOp(id, error) ==
    /\ IF ~IsProcessing(jobs, id)
          THEN /\ last' = ReturnedNull("fail", {}, id)
               /\ UNCHANGED <<jobs, hist>>
          ELSE LET i == IndexOf(jobs, id)
                   updated == Failed(jobs[i], error, clock)
               IN  /\ jobs' = [jobs EXCEPT ![i] = updated]
                   /\ hist' = [hist EXCEPT ![i].open =
                                  IF updated.status = "pending" THEN 0 ELSE @,
                                           ![i].fails = @ + 1,
                                           ![i].errors = Append(@, error)]
                   /\ last' = Returned("fail", {}, id, NullS, error, updated)
    /\ UNCHANGED <<twin, conn, adapter, initialized, clock, tx>>

(* time passes *)
TickOp(maxTime) ==
    /\ clock + TickSeconds <= maxTime
    /\ clock' = clock + TickSeconds
    /\ last' = ReturnedNull("tick", {}, 0)
    /\ UNCHANGED <<twin, conn, adapter, initialized, jobs, tx, hist>>

Publish == \E input \in PublishInputs : PublishOp(MaxJobs, input)

PublishScheduled ==
    \E input \in PublishInputs, d \in SchedDelays :
        PublishOp(MaxJobs, [input EXCEPT !.scheduled_for = {clock + d}])

\* one caller at a time: the worker name is only written to worker_id
Claim == \E types \in TypeFilters : ClaimOp("w1", types)

Complete == \E id \in TargetIds, result \in Results : CompleteOp(id, result)

Fail == \E id \in TargetIds, error \in Errors : FailOp(id, error)

Tick == TickOp(MaxTime)

Next ==
    \/ Publish
    \/ PublishScheduled
    \/ Claim
    \/ Complete
    \/ Fail
    \/ Tick

Spec == Init /\ [][Next]_vars

----------------------------------------------------------------------------
(* The Postgres adapter under concurrent callers.  Every pool.query runs   *)
(* one statement in its own READ COMMITTED transaction: the statement      *)
(* reads a snapshot of the committed rows, NOW() is the time it started,   *)
(* and its row locks are released when it commits.                         *)

\* the sequences that hold each element of the set once
Orderings(set) ==
    { s \in [1..Cardinality(set) -> set] :
        \A a, b \in 1..Cardinality(set) : a # b => s[a] # s[b] }

(* the inner SELECT of getClaimJobSQL on its snapshot: the eligible ids in  *)
(* ORDER BY priority DESC, scheduled_for ASC order, ties in any order       *)
PgSnapshotOrders(store, now, types) ==
    LET eligible == { i \in 1..Len(store) : PgEligible(store[i], now, types) }
    IN  { s \in Orderings(eligible) :
            \A a, b \in 1..Len(s) :
                a < b => ~PgBefore(store[s[b]], store[s[a]]) }

\* the row is locked by a statement of another worker
PgLockedByOther(txs, w, i) ==
    \E v \in DOMAIN txs : v # w /\ txs[v].pc = "locked" /\ txs[v].target = i

\* FOR UPDATE without SKIP LOCKED: the statement waits for a locked row
PgScanRowWaits(store, txs, w, i) ==
    IF PgLockedByOther(txs, w, i) THEN "wait"
    ELSE IF ~PgEligible(store[i], txs[w].now, txs[w].types) THEN "skip"
    ELSE "lock"

\* the inner SELECT without FOR UPDATE SKIP LOCKED: it returns the first id
\* of its snapshot, no lock is asked for and the row is not looked at again
PgScanRowNoLock(store, txs, w, i) == "lock"

(* FOR UPDATE SKIP LOCKED LIMIT 1 looking at one row of its snapshot: a row *)
(* locked by another transaction is skipped; otherwise the row is locked    *)
(* and, as it may have changed since the snapshot, its WHERE clause is      *)
(* evaluated again on the committed version; a row that fails is skipped.   *)
PgScanRow(store, txs, w, i) ==
    IF PgLockedByOther(txs, w, i) THEN "skip"
    ELSE IF ~PgEligible(store[i], txs[w].now, txs[w].types) THEN "skip"
    ELSE "lock"

(* PostgresAdapter.claim sends the statement *)
PgClaimBegin(w, types) ==
    /\ tx[w].pc \in {"idle", "done"}
    /\ \E order \in PgSnapshotOrders(jobs, clock, types) :
          tx' = [tx EXCEPT ![w] =
                    Tx("scan", "claim", clock, order, types, 0, 0, NullS,
                       NoRet)]
    /\ UNCHANGED <<twin, conn, adapter, initialized, clock, jobs, last, hist>>

(* the inner SELECT examines the next row of its snapshot, or finds none    *)
(* and the statement returns no row; a statement that has to wait for a row *)
(* lock takes no step                                                       *)
PgClaimScan(w) ==
    /\ tx[w].pc = "scan"
    /\ IF tx[w].cands = <<>>
          THEN tx' = [tx EXCEPT ![w].pc = "done", ![w].ret = NoRet]
          ELSE LET found == PgScanRow(jobs, tx, w, Head(tx[w].cands))
               IN  /\ found # "wait"
                   /\ IF found = "skip"
                         THEN tx' = [tx EXCEPT ![w].cands = Tail(@)]
                         ELSE tx' = [tx EXCEPT ![w].pc = "locked",
                                               ![w].target = Head(tx[w].cands),
                                               ![w].cands = <<>>]
    /\ UNCHANGED <<twin, conn, adapter, initialized, clock, jobs, last, hist>>

(* the UPDATE writes the selected row, the transaction commits and the      *)
(* caller gets the row                                                      *)
PgClaimCommit(w) ==
    /\ tx[w].pc = "locked"
    /\ LET i == tx[w].target
           claimed == PgClaimSet(jobs[i], w, tx[w].now)
       IN  /\ jobs' = [jobs EXCEPT ![i] = claimed]
           /\ hist' = [hist EXCEPT ![i].claims = @ + 1, ![i].open = @ + 1]
           /\ tx' = [tx EXCEPT ![w].pc = "done", ![w].ret = Ret(claimed)]
    /\ UNCHANGED <<twin, conn, adapter, initialized, clock, last>>

(* PostgresAdapter.complete / fail send the statement: the UPDATE finds the *)
(* row of its WHERE clause in the snapshot, or no row                       *)
PgUpdateBegin(w, op, id, error) ==
    /\ tx[w].pc \in {"idle", "done"}
    /\ IF PgIsProcessing(jobs, id)
          THEN tx' = [tx EXCEPT ![w] =
                    Tx("wait", op, clock, <<>>, {}, id, IndexOf(jobs, id),
                       error, NoRet)]
          ELSE tx' = [tx EXCEPT ![w] =
                    Tx("done", op, clock, <<>>, {}, id, 0, error, NoRet)]
    /\ UNCHANGED <<twin, conn, adapter, initialized, clock, jobs, last, hist>>

(* the UPDATE takes the row lock (waiting while another transaction holds   *)
(* it), evaluates its WHERE clause again on the committed version, writes   *)
(* the row if it still matches, and commits                                 *)
PgUpdateApply(w) ==
    /\ tx[w].pc = "wait"
    /\ ~PgLockedByOther(tx, w, tx[w].target)
    /\ LET i == tx[w].target
           updated == IF tx[w].op = "complete"
                          THEN PgCompleteSet(jobs[i], tx[w].now)
                          ELSE PgFailSet(jobs[i], tx[w].error, tx[w].now)
       IN  IF PgIsProcessing(jobs, jobs[i].job_id)
              THEN /\ jobs' = [jobs EXCEPT ![i] = updated]
                   /\ hist' = IF tx[w].op = "complete" THEN hist
                              ELSE [hist EXCEPT
                                      ![i].open = IF updated.status = "pending"
                                                      THEN 0 ELSE @,
                                      ![i].fails = @ + 1,
                                      ![i].errors = Append(@, tx[w].error)]
                   /\ tx' = [tx EXCEPT ![w].pc = "done",
                                       ![w].ret = Ret(updated)]
              ELSE /\ tx' = [tx EXCEPT ![w].pc = "done", ![w].ret = NoRet]
                   /\ UNCHANGED <<jobs, hist>>
    /\ UNCHANGED <<twin, conn, adapter, initialized, clock, last>>

----------------------------------------------------------------------------
(* Concurrent scenario: two workers claim, complete and fail at any time    *)

ConcInputs == { PublishInput("x", {}, {2}) }

InitConc ==
    /\ adapter = "postgres"
    /\ conn = "ready"
    /\ initialized = TRUE
    /\ twin = <<>>
    /\ clock = 0
    /\ jobs = <<>>
    /\ tx = [w \in Workers |-> NoTx]
    /\ last = ReturnedNull("init", {}, 0)
    /\ hist = <<>>

ConcPublish == \E input \in ConcInputs : PublishOp(ConcJobs, input)

ConcClaimBegin == \E w \in Workers : PgClaimBegin(w, {})

ConcClaimScan == \E w \in Workers : PgClaimScan(w)

ConcClaimCommit == \E w \in Workers : PgClaimCommit(w)

ConcCompleteBegin ==
    \E w \in Workers, id \in TargetIds : PgUpdateBegin(w, "complete", id, NullS)

ConcFailBegin ==
    \E w \in Workers, id \in TargetIds, error \in Errors :
        PgUpdateBegin(w, "fail", id, error)

ConcUpdateApply == \E w \in Workers : PgUpdateApply(w)

ConcTick == TickOp(ConcMaxTime)

NextConc ==
    \/ ConcPublish
    \/ ConcClaimBegin
    \/ ConcClaimScan
    \/ ConcClaimCommit
    \/ ConcCompleteBegin
    \/ ConcFailBegin
    \/ ConcUpdateApply
    \/ ConcTick

SpecConc == InitConc /\ [][NextConc]_vars

----------------------------------------------------------------------------
(* Claim race: a table of up to RaceJobs published jobs, some of them       *)
(* scheduled for later, and up to RaceClaimers workers that each send one   *)
(* claim without a type filter.                                             *)

RaceNames == <<"w1", "w2", "w3", "w4", "w5">>

RaceInputs ==
    { PublishInput("x", {}, {1}),
      PublishInput("x", {10}, {1}),
      [PublishInput("x", {}, {1}) EXCEPT !.scheduled_for = {60}] }

\* the table after publishing the inputs f[1], ..., f[n] at time 0
RaceTable(n, f) ==
    [i \in 1..n |-> PgInsertRow(i, NewEnvelope(i, f[i], 0), 0)]

InitRace ==
    /\ adapter = "postgres"
    /\ conn = "ready"
    /\ initialized = TRUE
    /\ twin = <<>>
    /\ clock = 0
    /\ \E n \in 0..RaceJobs : \E f \in [1..n -> RaceInputs] :
          /\ jobs = RaceTable(n, f)
          /\ hist = [i \in 1..n |-> NoHist]
    /\ \E k \in 1..RaceClaimers :
          tx = [w \in {RaceNames[c] : c \in 1..k} |-> NoTx]
    /\ last = ReturnedNull("init", {}, 0)

RaceClaimBegin ==
    \E w \in DOMAIN tx : tx[w].pc = "idle" /\ PgClaimBegin(w, {})

RaceClaimScan == \E w \in DOMAIN tx : PgClaimScan(w)

RaceClaimCommit == \E w \in DOMAIN tx : PgClaimCommit(w)

NextRace ==
    \/ RaceClaimBegin
    \/ RaceClaimScan
    \/ RaceClaimCommit

SpecRace == InitRace /\ [][NextRace]_vars

----------------------------------------------------------------------------
(* Retry scenario: one job, every max_attempts up to the default, two       *)
(* different errors, and time enough for three attempts.                    *)

RetryInputs ==
    { PublishInput("x", {}, {1}),
      PublishInput("x", {}, {2}),
      PublishInput("x", {}, {}) }

RetryErrors == {"boom", "bang"}

RetryPublish == \E input \in RetryInputs : PublishOp(RetryJobs, input)

RetryFail == \E id \in TargetIds, error \in RetryErrors : FailOp(id, error)

RetryTick == TickOp(RetryMaxTime)

NextRetry ==
    \/ RetryPublish
    \/ Claim
    \/ Complete
    \/ RetryFail
    \/ RetryTick

SpecRetry == Init /\ [][NextRetry]_vars

----------------------------------------------------------------------------
(* Ordering scenario: three jobs of priorities 0, 5 and 10 and two types,   *)
(* published at different times and claimed with and without a type filter. *)

OrderInputs ==
    { PublishInput("x", {}, {1}),
      PublishInput("x", {10}, {1}),
      PublishInput("x", {5}, {1}),
      PublishInput("y", {5}, {1}) }

OrderPublish == \E input \in OrderInputs : PublishOp(OrderJobs, input)

OrderClaim == \E types \in TypeFilters : ClaimOp("w1", types)

OrderTick == TickOp(OrderMaxTime)

NextOrder ==
    \/ OrderPublish
    \/ OrderClaim
    \/ OrderTick

SpecOrder == Init /\ [][NextOrder]_vars

----------------------------------------------------------------------------
(* queue.ts called with caller input as it arrives: every function parses  *)
(* its input with the zod schema first, and parses what it returns.        *)

\* A JavaScript number, written as the fraction num/den with den > 0.
Num(num, den) == [ num |-> num, den |-> den ]

\* z.number().int()
IsInt(n) == n.num % n.den = 0

IntOf(n) == n.num \div n.den

\* Job ids are UUID strings, written as numbers from 1; NotAUuid is a job_id
\* string that z.string().uuid() rejects.
NotAUuid == 0

IsUuid(id) == id # NotAUuid

\* crypto.randomUUID() in publishJob: an id the storage has not generated
ClientUuid(store) == 100 + Len(store) + 1

RawPublish(type, payload, priority, max_attempts, scheduled_for, trace_id) ==
    [ type |-> type, payload |-> payload, priority |-> priority,
      max_attempts |-> max_attempts, scheduled_for |-> scheduled_for,
      trace_id |-> trace_id ]

\* the schema without .positive() on max_attempts
PublishInputValidAnyBudget(raw) ==
    /\ raw.type # ""
    /\ raw.payload.kind = "object"
    /\ \A p \in raw.priority : IsInt(p)
    /\ \A m \in raw.max_attempts : IsInt(m)
    /\ \A t \in raw.trace_id : t # ""

(* PublishJobInputSchema.parse does not throw *)
PublishInputValid(raw) ==
    /\ raw.type # ""
    /\ raw.payload.kind = "object"
    /\ \A p \in raw.priority : IsInt(p)
    /\ \A m \in raw.max_attempts : IsInt(m) /\ IntOf(m) > 0
    /\ \A t \in raw.trace_id : t # ""

(* the value PublishJobInputSchema.parse returns *)
ParsePublish(raw) ==
    [ type |-> raw.type, payload |-> raw.payload,
      priority |-> { IntOf(p) : p \in raw.priority },
      max_attempts |-> { IntOf(m) : m \in raw.max_attempts },
      scheduled_for |-> raw.scheduled_for, trace_id |-> raw.trace_id ]

(* CompleteJobInputSchema.parse does not throw *)
CompleteInputValid(raw) == IsUuid(raw.job_id)

(* FailJobInputSchema.parse does not throw *)
FailInputValid(raw) == IsUuid(raw.job_id) /\ raw.error # ""

(* JobEnvelopeSchema.parse does not throw *)
EnvelopeValid(e) ==
    /\ IsUuid(e.job_id)
    /\ e.trace_id # ""
    /\ e.type # ""
    /\ e.payload.kind = "object"
    /\ e.status \in Statuses
    /\ e.attempts >= 0
    /\ e.max_attempts > 0
    /\ e.created_at # NullT /\ e.updated_at # NullT /\ e.scheduled_for # NullT

(* ResultEnvelopeSchema.parse does not throw *)
ResultValid(r) ==
    /\ IsUuid(r.job_id)
    /\ r.trace_id # ""
    /\ r.type # ""
    /\ r.status \in {"completed", "failed"}
    /\ r.completed_at # NullT

\* A call of a queue.ts function as recorded in last: the input it was given,
\* whether it threw, and what it returned (NoRet: null, or nothing if it threw)
ApiCall(op, input, threw, ret) ==
    [ op |-> op, input |-> input, threw |-> threw, ret |-> ret ]

PublishResult(validated) ==
    [ job_id |-> validated.job_id, trace_id |-> validated.trace_id ]

\* completeJob taking the result from the stored envelope
CompleteResultFromStore(updated, parsed, now) ==
    [ job_id |-> updated.job_id, trace_id |-> updated.trace_id,
      type |-> updated.type, status |-> "completed",
      result |-> updated.result, error |-> Absent,
      completed_at |-> IF updated.completed_at # NullT
                           THEN updated.completed_at ELSE now ]

(* the ResultEnvelope completeJob builds *)
CompleteResult(updated, parsed, now) ==
    [ job_id |-> updated.job_id, trace_id |-> updated.trace_id,
      type |-> updated.type, status |-> "completed",
      result |-> OrElse(parsed.result, Absent), error |-> Absent,
      completed_at |-> IF updated.completed_at # NullT
                           THEN updated.completed_at ELSE now ]

\* failJob reporting the status the adapter wrote
FailResultStoredStatus(updated) ==
    [ job_id |-> updated.job_id, trace_id |-> updated.trace_id,
      type |-> updated.type, status |-> updated.status,
      result |-> Absent, error |-> updated.error,
      completed_at |-> IF updated.failed_at # NullT
                           THEN updated.failed_at ELSE updated.updated_at ]

(* the ResultEnvelope failJob builds *)
FailResult(updated) ==
    [ job_id |-> updated.job_id, trace_id |-> updated.trace_id,
      type |-> updated.type, status |-> "failed",
      result |-> Absent, error |-> updated.error,
      completed_at |-> IF updated.failed_at # NullT
                           THEN updated.failed_at ELSE updated.updated_at ]

(* publishJob.  On Postgres the row is written lag seconds after publishJob *)
(* read the client's clock: created_at is NOW() of the INSERT.              *)
PublishJobOp(maxJobs, maxTime, raw, lag) ==
    /\ IF ~PublishInputValid(raw)
          THEN /\ lag = 0
               /\ last' = ApiCall("publishJob", raw, TRUE, NoRet)
               /\ UNCHANGED <<clock, jobs, hist>>
          ELSE /\ Len(jobs) < maxJobs
               /\ clock + lag <= maxTime
               /\ adapter = "memory" => lag = 0
               /\ LET envelope == NewEnvelope(ClientUuid(jobs),
                                              ParsePublish(raw), clock)
                      stored == IF adapter = "memory"
                                    THEN MemInsert(envelope)
                                    ELSE PgInsertRow(FreshId(jobs), envelope,
                                                     clock + lag)
                  IN  /\ jobs' = Append(jobs, stored)
                      /\ hist' = Append(hist, NoHist)
                      /\ clock' = clock + lag
                      /\ last' = IF EnvelopeValid(stored)
                                    THEN ApiCall("publishJob", raw, FALSE,
                                                 Ret(PublishResult(stored)))
                                    ELSE ApiCall("publishJob", raw, TRUE, NoRet)
    /\ UNCHANGED <<twin, conn, adapter, initialized, tx>>

(* claimNextJob *)
ClaimNextJobOp(workerName, types) ==
    /\ IF ClaimTargets(jobs, clock, types) = {}
          THEN /\ last' = ReturnedNull("claim", types, 0)
               /\ UNCHANGED <<jobs, hist>>
          ELSE \E i \in ClaimTargets(jobs, clock, types) :
               LET claimed == Claimed(jobs[i], workerName, clock)
               IN  /\ jobs' = [jobs EXCEPT ![i] = claimed]
                   /\ hist' = [hist EXCEPT ![i].claims = @ + 1,
                                           ![i].open = @ + 1]
                   /\ last' = IF EnvelopeValid(claimed)
                                 THEN Returned("claim", types, claimed.job_id,
                                               workerName, NullS, claimed)
                                 ELSE ApiCall("claim", types, TRUE, NoRet)
    /\ UNCHANGED <<twin, conn, adapter, initialized, clock, tx>>

(* completeJob, recorded as the call name(input) *)
CompleteJobCall(name, input, raw) ==
    /\ IF ~CompleteInputValid(raw)
          THEN /\ last' = ApiCall(name, input, TRUE, NoRet)
               /\ UNCHANGED <<jobs, hist>>
          ELSE IF ~IsProcessing(jobs, raw.job_id)
          THEN /\ last' = ApiCall(name, input, FALSE, NoRet)
               /\ UNCHANGED <<jobs, hist>>
          ELSE LET i == IndexOf(jobs, raw.job_id)
                   updated == Completed(jobs[i], raw.result, clock)
                   result == CompleteResult(updated, raw, clock)
               IN  /\ jobs' = [jobs EXCEPT ![i] = updated]
                   /\ last' = IF ResultValid(result)
                                 THEN ApiCall(name, input, FALSE,
                                              Ret(result))
                                 ELSE ApiCall(name, input, TRUE, NoRet)
                   /\ UNCHANGED hist
    /\ UNCHANGED <<twin, conn, adapter, initialized, clock, tx>>

CompleteJobOp(raw) == CompleteJobCall("completeJob", raw, raw)

(* failJob, recorded as the call name(input) *)
FailJobCall(name, input, raw) ==
    /\ IF ~FailInputValid(raw)
          THEN /\ last' = ApiCall(name, input, TRUE, NoRet)
               /\ UNCHANGED <<jobs, hist>>
          ELSE IF ~IsProcessing(jobs, raw.job_id)
          THEN /\ last' = ApiCall(name, input, FALSE, NoRet)
               /\ UNCHANGED <<jobs, hist>>
          ELSE LET i == IndexOf(jobs, raw.job_id)
                   updated == Failed(jobs[i], raw.error, clock)
                   result == FailResult(updated)
               IN  /\ jobs' = [jobs EXCEPT ![i] = updated]
                   /\ hist' = [hist EXCEPT ![i].open =
                                  IF updated.status = "pending" THEN 0 ELSE @,
                                           ![i].fails = @ + 1,
                                           ![i].errors = Append(@, raw.error)]
                   /\ last' = IF ResultValid(result)
                                 THEN ApiCall(name, input, FALSE, Ret(result))
                                 ELSE ApiCall(name, input, TRUE, NoRet)
    /\ UNCHANGED <<twin, conn, adapter, initialized, clock, tx>>

FailJobOp(raw) == FailJobCall("failJob", raw, raw)

----------------------------------------------------------------------------
(* Scenario of the queue functions: valid and invalid input, payloads with  *)
(* and without a Date, scheduled_for before and after the publish time,     *)
(* results, two workers.                                                    *)

ApiValidInputs ==
    { RawPublish("x", JsonPayload, {}, {}, {}, {}),
      RawPublish("y", DatePayload, {Num(10, 1)}, {Num(1, 1)}, {}, {"t1"}) }

ApiInvalidInputs ==
    { RawPublish("", JsonPayload, {}, {}, {}, {}),
      RawPublish("x", ArrayPayload, {}, {}, {}, {}),
      RawPublish("x", JsonPayload, {Num(3, 2)}, {}, {}, {}),
      RawPublish("x", JsonPayload, {}, {Num(0, 1)}, {}, {}) }

\* scheduled_for relative to the time of the publish call
ApiSchedOffsets == {0 - 30, 30}

ApiLags == {0, TickSeconds}

\* a UUID no job has
UnknownUuid == 999

ApiTargetIds == JobIds(jobs) \cup {UnknownUuid, NotAUuid}

ApiResults == {{}, {"r1"}}

ApiErrors == {"boom", ""}

ApiPublish ==
    \E raw \in ApiValidInputs, lag \in ApiLags :
        PublishJobOp(ApiJobs, ApiMaxTime, raw, lag)

ApiPublishScheduled ==
    \E raw \in ApiValidInputs, d \in ApiSchedOffsets, lag \in ApiLags :
        /\ clock + d >= 0
        /\ PublishJobOp(ApiJobs, ApiMaxTime,
                        [raw EXCEPT !.scheduled_for = {clock + d}], lag)

ApiPublishInvalid ==
    \E raw \in ApiInvalidInputs : PublishJobOp(ApiJobs, ApiMaxTime, raw, 0)

ApiClaim ==
    \E w \in Workers, types \in TypeFilters : ClaimNextJobOp(w, types)

ApiComplete ==
    \E id \in ApiTargetIds, result \in ApiResults :
        CompleteJobOp([job_id |-> id, result |-> result])

ApiFail ==
    \E id \in ApiTargetIds, error \in ApiErrors :
        FailJobOp([job_id |-> id, error |-> error])

ApiTick == TickOp(ApiMaxTime)

NextApi ==
    \/ ApiPublish
    \/ ApiPublishScheduled
    \/ ApiPublishInvalid
    \/ ApiClaim
    \/ ApiComplete
    \/ ApiFail
    \/ ApiTick

SpecApi == Init /\ [][NextApi]_vars

----------------------------------------------------------------------------
(* The QueueClient classes that workers use.  QueueClient.ts wraps a        *)
(* PostgresAdapter and the queue functions; the legacy client (client.ts    *)
(* before it became a re-export) sends the SQL of schema.ts itself.         *)

ClientJobs == 1
ClientMaxTime == 30

\* placeholders of getCompleteJobSQL ($1) and of getFailJobSQL ($1, $2)
CompleteSqlParams == 1
FailSqlParams == 2

(* pool.query(sql, params): the server accepts the Bind message only when   *)
(* it supplies as many parameters as the statement has placeholders         *)
BindAccepted(params, placeholders) == Len(params) = placeholders

(* QueueClient.publishJob *)
QueueClientPublishJobOp(options, lag) ==
    PublishJobOp(ClientJobs, ClientMaxTime,
                 RawPublish(options.type, options.payload,
                            {OrElse(options.priority, Num(0, 1))},
                            {OrElse(options.maxAttempts, Num(3, 1))},
                            options.scheduledFor, options.traceId),
                 lag)

(* QueueClient.claimJob: input.types ?? [] *)
QueueClientClaimJobOp(input) ==
    ClaimNextJobOp(input.workerId, OrElse(input.types, {}))

(* QueueClient.completeJob: input.workerId is not passed on *)
QueueClientCompleteJobOp(input) ==
    CompleteJobCall("QueueClient.completeJob", input,
                    [job_id |-> input.jobId, result |-> input.result])

(* QueueClient.failJob: input.workerId is not passed on *)
QueueClientFailJobOp(input) ==
    FailJobCall("QueueClient.failJob", input,
                [job_id |-> input.jobId, error |-> input.error])

(* legacy QueueClient.completeJob: pool.query(sql, [jobId, workerId]) *)
LegacyCompleteJobOp(options) ==
    /\ ~BindAccepted(<<options.jobId, options.workerId>>, CompleteSqlParams)
    /\ last' = ApiCall("legacy.completeJob", options, TRUE, NoRet)
    /\ UNCHANGED <<twin, conn, adapter, initialized, clock, jobs, tx, hist>>

(* legacy QueueClient.failJob: pool.query(sql, [jobId, workerId, error]) *)
LegacyFailJobOp(options) ==
    /\ ~BindAccepted(<<options.jobId, options.workerId, options.error>>,
                     FailSqlParams)
    /\ last' = ApiCall("legacy.failJob", options, TRUE, NoRet)
    /\ UNCHANGED <<twin, conn, adapter, initialized, clock, jobs, tx, hist>>

ClientOptions ==
    { [ type |-> "x", payload |-> JsonPayload, priority |-> {},
        maxAttempts |-> {Num(2, 1)}, scheduledFor |-> {}, traceId |-> {} ] }

ClientTargetIds == JobIds(jobs) \cup {UnknownUuid}

ClientPublish == \E options \in ClientOptions : QueueClientPublishJobOp(options, 0)

ClientClaim ==
    \E w \in Workers :
        QueueClientClaimJobOp([workerId |-> w, types |-> {}])

ClientComplete ==
    \E id \in ClientTargetIds, w \in Workers :
        QueueClientCompleteJobOp([jobId |-> id, workerId |-> w, result |-> {}])

ClientFail ==
    \E id \in ClientTargetIds, w \in Workers, error \in Errors :
        QueueClientFailJobOp([jobId |-> id, workerId |-> w, error |-> error])

LegacyComplete ==
    \E id \in ClientTargetIds, w \in Workers :
        LegacyCompleteJobOp([jobId |-> id, workerId |-> w])

LegacyFail ==
    \E id \in ClientTargetIds, w \in Workers, error \in Errors :
        LegacyFailJobOp([jobId |-> id, workerId |-> w, error |-> error])

ClientTick == TickOp(ClientMaxTime)

NextClient ==
    \/ ClientPublish
    \/ ClientClaim
    \/ ClientComplete
    \/ ClientFail
    \/ LegacyComplete
    \/ LegacyFail
    \/ ClientTick

SpecClient == InitConc /\ [][NextClient]_vars

----------------------------------------------------------------------------
(* Adapter life cycle: initialize, insert, claim, complete, fail and close  *)
(* in any order on one adapter object, from its construction on.           *)

LifeJobs == 2
LifeMaxTime == 30

\* a call that threw (the promise of pool.query rejected)
Rejected(op) == Call("rejected", {}, 0, op, NullS, NoRet)

(* MemoryAdapter.close: this.jobs.clear() *)
MemClose(store) == <<>>

\* close that drops the table
PgCloseDropsTable(table) == <<>>

(* PostgresAdapter.close: pool.end(); no statement is sent *)
PgClose(table) == table

(* pool.query: it rejects on a pool that has ended, and before             *)
(* getCreateTableSQL has created the relation                              *)
PgQueryWorks == conn = "ready"

AdapterWorks == adapter = "memory" \/ PgQueryWorks

(* initialize: nothing to do in memory; on Postgres a no-op once            *)
(* this.initialized is set, else CREATE ... IF NOT EXISTS, which rejects on *)
(* an ended pool and leaves the flag unset                                  *)
InitializeOp ==
    /\ conn' = IF adapter = "postgres" /\ conn = "new" THEN "ready" ELSE conn
    /\ last' = ReturnedNull("initialize", {}, 0)
    /\ UNCHANGED <<twin, adapter, initialized, clock, jobs, tx, hist>>

(* close *)
CloseOp ==
    /\ IF adapter = "memory"
          THEN /\ jobs' = MemClose(jobs)
               /\ hist' = <<>>
               /\ conn' = conn
          ELSE /\ jobs' = PgClose(jobs)
               /\ hist' = IF jobs' = jobs THEN hist ELSE <<>>
               /\ conn' = "closed"
    /\ last' = ReturnedNull("close", {}, 0)
    /\ UNCHANGED <<twin, adapter, initialized, clock, tx>>

(* insert, claim, complete or fail on a Postgres adapter whose pool cannot   *)
(* run the statement: the call throws                                       *)
RejectedOp(op) ==
    /\ ~AdapterWorks
    /\ last' = Rejected(op)
    /\ UNCHANGED <<twin, conn, adapter, initialized, clock, jobs, tx, hist>>

InitLife ==
    /\ adapter \in Adapters
    /\ conn = "new"
    /\ initialized = FALSE
    /\ twin = <<>>
    /\ clock = 0
    /\ jobs = <<>>
    /\ tx = [w \in Workers |-> NoTx]
    /\ last = ReturnedNull("init", {}, 0)
    /\ hist = <<>>

LifePublish ==
    AdapterWorks /\ \E input \in PublishInputs : PublishOp(LifeJobs, input)

LifeClaim == AdapterWorks /\ ClaimOp("w1", {})

LifeComplete ==
    AdapterWorks /\ \E id \in TargetIds, result \in Results : CompleteOp(id, result)

LifeFail == AdapterWorks /\ \E id \in TargetIds, error \in Errors : FailOp(id, error)

LifeRejected == \E op \in {"insert", "claim", "complete", "fail"} : RejectedOp(op)

LifeTick == TickOp(LifeMaxTime)

NextLife ==
    \/ InitializeOp
    \/ LifePublish
    \/ LifeClaim
    \/ LifeComplete
    \/ LifeFail
    \/ LifeRejected
    \/ CloseOp
    \/ LifeTick

SpecLife == InitLife /\ [][NextLife]_vars

----------------------------------------------------------------------------
(* Two concurrent calls: the queue is brought to some state by awaited      *)
(* calls, then each of two workers sends one call, a claim or a complete or *)
(* fail of a stored job, and the two statements run in any interleaving,    *)
(* one after the other included.                                            *)

PairJobs == 1
PairMaxTime == 30

\* no worker has sent its call yet
PairSetup == \A w \in Workers : tx[w].pc = "idle"

PairPublish == PairSetup /\ \E input \in ConcInputs : PublishOp(PairJobs, input)

PairSetupClaim == PairSetup /\ ClaimOp("w1", {})

PairSetupComplete ==
    PairSetup /\ \E id \in JobIds(jobs), result \in Results : CompleteOp(id, result)

PairSetupFail ==
    PairSetup /\ \E id \in JobIds(jobs), error \in Errors : FailOp(id, error)

PairClaimBegin ==
    \E w \in Workers : tx[w].pc = "idle" /\ jobs # <<>> /\ PgClaimBegin(w, {})

PairCompleteBegin ==
    \E w \in Workers, id \in JobIds(jobs) :
        tx[w].pc = "idle" /\ PgUpdateBegin(w, "complete", id, NullS)

PairFailBegin ==
    \E w \in Workers, id \in JobIds(jobs), error \in Errors :
        tx[w].pc = "idle" /\ PgUpdateBegin(w, "fail", id, error)

PairTick == TickOp(PairMaxTime)

NextPair ==
    \/ PairPublish
    \/ PairSetupClaim
    \/ PairSetupComplete
    \/ PairSetupFail
    \/ PairClaimBegin
    \/ ConcClaimScan
    \/ ConcClaimCommit
    \/ PairCompleteBegin
    \/ PairFailBegin
    \/ ConcUpdateApply
    \/ PairTick

SpecPair == InitConc /\ [][NextPair]_vars

----------------------------------------------------------------------------
(* Side by side: a MemoryAdapter (jobs) and a PostgresAdapter (twin) are    *)
(* given the same calls at the same clock values, one call at a time.  A    *)
(* complete or fail names the job by the job_id its own adapter returned    *)
(* when the job was published.                                              *)

TwinJobs == 2
TwinMaxTime == 30

TwinInputs ==
    { PublishInput("x", {}, {1}),
      [PublishInput("y", {10}, {2}) EXCEPT !.payload = DatePayload] }

\* what the two adapters returned to one call
Both(op, mem, pg) == [ op |-> op, mem |-> mem, pg |-> pg ]

\* no two jobs a claim may take tie on both priority and scheduled_for
NoTie(store, now, types) ==
    \A i, k \in 1..Len(store) :
        (/\ i # k
         /\ MemEligible(store[i], now, types)
         /\ MemEligible(store[k], now, types))
        => \/ store[i].priority # store[k].priority
           \/ store[i].scheduled_for # store[k].scheduled_for

\* the job_id of the k-th published job in this store, or one it never gave
IdAt(store, k) == IF k \in 1..Len(store) THEN store[k].job_id ELSE UnknownUuid

InitTwin ==
    /\ adapter = "memory"
    /\ conn = "ready"
    /\ initialized = TRUE
    /\ twin = <<>>
    /\ clock = 0
    /\ jobs = <<>>
    /\ tx = [w \in Workers |-> NoTx]
    /\ last = Both("init", NoRet, NoRet)
    /\ hist = <<>>

TwinPublish ==
    /\ Len(jobs) < TwinJobs
    /\ \E input \in TwinInputs :
          LET envelope == NewEnvelope(ClientUuid(jobs), input, clock)
              row == PgInsertRow(FreshId(twin), envelope, clock)
          IN  /\ jobs' = Append(jobs, MemInsert(envelope))
              /\ twin' = Append(twin, row)
              /\ last' = Both("publish", Ret(MemInsert(envelope)), Ret(row))
    /\ UNCHANGED <<conn, adapter, initialized, clock, tx, hist>>

TwinClaim ==
    /\ \E types \in TypeFilters :
          /\ NoTie(jobs, clock, types)
          /\ LET m == MemClaimTarget(jobs, clock, types)
                 claimed == MemClaimed(jobs[m[1]], "w1", clock)
                 rows == PgClaimTargets(twin, clock, types)
             IN  /\ jobs' = IF m = <<>> THEN jobs
                            ELSE [jobs EXCEPT ![m[1]] = claimed]
                 /\ IF rows = {}
                       THEN /\ twin' = twin
                            /\ last' = Both("claim",
                                            IF m = <<>> THEN NoRet
                                                        ELSE Ret(claimed),
                                            NoRet)
                       ELSE \E r \in rows :
                            LET row == PgClaimSet(twin[r], "w1", clock)
                            IN  /\ twin' = [twin EXCEPT ![r] = row]
                                /\ last' = Both("claim",
                                                IF m = <<>> THEN NoRet
                                                            ELSE Ret(claimed),
                                                Ret(row))
    /\ UNCHANGED <<conn, adapter, initialized, clock, tx, hist>>

TwinComplete ==
    /\ \E k \in 1..(Len(jobs) + 1), result \in Results :
          LET m == IndexOf(jobs, IdAt(jobs, k))
              r == IndexOf(twin, IdAt(twin, k))
              updated == MemCompleted(jobs[m], result, clock)
              row == PgCompleteSet(twin[r], clock)
              mdone == MemIsProcessing(jobs, IdAt(jobs, k))
              rdone == PgIsProcessing(twin, IdAt(twin, k))
          IN  /\ jobs' = IF mdone THEN [jobs EXCEPT ![m] = updated] ELSE jobs
              /\ twin' = IF rdone THEN [twin EXCEPT ![r] = row] ELSE twin
              /\ last' = Both("complete",
                              IF mdone THEN Ret(updated) ELSE NoRet,
                              IF rdone THEN Ret(row) ELSE NoRet)
    /\ UNCHANGED <<conn, adapter, initialized, clock, tx, hist>>

TwinFail ==
    /\ \E k \in 1..(Len(jobs) + 1), error \in Errors :
          LET m == IndexOf(jobs, IdAt(jobs, k))
              r == IndexOf(twin, IdAt(twin, k))
              updated == MemFailed(jobs[m], error, clock)
              row == PgFailSet(twin[r], error, clock)
              mdone == MemIsProcessing(jobs, IdAt(jobs, k))
              rdone == PgIsProcessing(twin, IdAt(twin, k))
          IN  /\ jobs' = IF mdone THEN [jobs EXCEPT ![m] = updated] ELSE jobs
              /\ twin' = IF rdone THEN [twin EXCEPT ![r] = row] ELSE twin
              /\ last' = Both("fail",
                              IF mdone THEN Ret(updated) ELSE NoRet,
                              IF rdone THEN Ret(row) ELSE NoRet)
    /\ UNCHANGED <<conn, adapter, initialized, clock, tx, hist>>

TwinTick ==
    /\ clock + TickSeconds <= TwinMaxTime
    /\ clock' = clock + TickSeconds
    /\ last' = Both("tick", NoRet, NoRet)
    /\ UNCHANGED <<conn, adapter, initialized, jobs, twin, tx, hist>>

NextTwin ==
    \/ TwinPublish
    \/ TwinClaim
    \/ TwinComplete
    \/ TwinFail
    \/ TwinTick

SpecTwin == InitTwin /\ [][NextTwin]_vars

----------------------------------------------------------------------------
(* initialize, call by call.  PostgresAdapter.initialize tests its flag,    *)
(* awaits pool.query(getCreateTableSQL(...)) and sets the flag afterwards;  *)
(* QueueClient.initialize tests its own flag, awaits adapter.initialize()   *)
(* and sets its flag afterwards.  tx[w] holds the call of caller w that is  *)
(* suspended at its await: pc "boot" while the bootstrap query is out,      *)
(* pc "resolved" when adapter.initialize() has resolved and the             *)
(* continuation of QueueClient.initialize has not run yet.                  *)

\* the test that runs the bootstrap whatever the flag says
BootstrapNeededAlways(flag) == TRUE

(* if (this.initialized) return  /  if (!this.initialized) { ... } *)
BootstrapNeeded(flag) == ~flag

\* PostgresAdapter's initialized flag
PgInitialized == conn # "new"

Suspended(pc, op) == Tx(pc, op, clock, <<>>, {}, 0, 0, NullS, NoRet)

(* adapter.initialize() called by w, directly (op "initialize") or from     *)
(* QueueClient.initialize                                                   *)
AdapterInitialize(w, op) ==
    IF adapter = "postgres" /\ BootstrapNeeded(PgInitialized)
       THEN /\ tx' = [tx EXCEPT ![w] = Suspended("boot", op)]
            /\ last' = last
       ELSE IF op = "initialize"
               THEN /\ tx' = tx
                    /\ last' = ReturnedNull(op, {}, 0)
               ELSE /\ tx' = [tx EXCEPT ![w] = Suspended("resolved", op)]
                    /\ last' = last

PostgresAdapterInitializeOp(w) ==
    /\ tx[w].pc = "idle"
    /\ AdapterInitialize(w, "initialize")
    /\ UNCHANGED <<twin, conn, adapter, initialized, clock, jobs, hist>>

QueueClientInitializeOp(w) ==
    /\ tx[w].pc = "idle"
    /\ IF BootstrapNeeded(initialized)
          THEN AdapterInitialize(w, "QueueClient.initialize")
          ELSE /\ tx' = tx
               /\ last' = ReturnedNull("QueueClient.initialize", {}, 0)
    /\ UNCHANGED <<twin, conn, adapter, initialized, clock, jobs, hist>>

(* the bootstrap query of w returns: this.initialized = true when it        *)
(* succeeded; when it failed the call throws with the flag as it was        *)
BootstrapReturns(w, ok) ==
    /\ tx[w].pc = "boot"
    /\ IF ok
          THEN /\ conn' = IF conn = "new" THEN "ready" ELSE conn
               /\ IF tx[w].op = "initialize"
                     THEN /\ tx' = [tx EXCEPT ![w] = NoTx]
                          /\ last' = ReturnedNull("initialize", {}, 0)
                     ELSE /\ tx' = [tx EXCEPT ![w] = Suspended("resolved", tx[w].op)]
                          /\ last' = last
          ELSE /\ conn' = conn
               /\ tx' = [tx EXCEPT ![w] = NoTx]
               /\ last' = Rejected(tx[w].op)
    /\ UNCHANGED <<twin, adapter, initialized, clock, jobs, hist>>

(* the continuation of QueueClient.initialize: this.initialized = true;     *)
(* return this                                                              *)
QueueClientInitialized(w) ==
    /\ tx[w].pc = "resolved"
    /\ initialized' = TRUE
    /\ tx' = [tx EXCEPT ![w] = NoTx]
    /\ last' = ReturnedNull("QueueClient.initialize", {}, 0)
    /\ UNCHANGED <<twin, conn, adapter, clock, jobs, hist>>

BootMaxTime == 30

BootAdapterInitialize == \E w \in Workers : PostgresAdapterInitializeOp(w)

BootClientInitialize == \E w \in Workers : QueueClientInitializeOp(w)

BootReturns == \E w \in Workers, ok \in BOOLEAN : BootstrapReturns(w, ok)

BootClientInitialized == \E w \in Workers : QueueClientInitialized(w)

BootTick == TickOp(BootMaxTime)

NextBoot ==
    \/ BootAdapterInitialize
    \/ BootClientInitialize
    \/ BootReturns
    \/ BootClientInitialized
    \/ BootTick

SpecBoot == InitLife /\ [][NextBoot]_vars

----------------------------------------------------------------------------
(* MemoryAdapter called by several workers on one event loop.  claim,       *)
(* complete and fail are async methods without an await: the call runs the  *)
(* whole body, then returns a promise that is already settled.  tx[w] holds *)
(* the settled promise of w (pc "settled") until the continuation of w's    *)
(* await runs.  Continuations are microtasks, which run before any timer    *)
(* fires: the clock does not advance while one is pending.                  *)

CoopJobs == 1
CoopMaxTime == 30

Settled(op, types, id, error, ret) ==
    Tx("settled", op, clock, <<>>, types, id, 0, error, ret)

(* MemoryAdapter.claim(workerName, jobTypes) *)
MemClaimCall(w, types) ==
    /\ adapter = "memory"
    /\ tx[w].pc = "idle"
    /\ LET t == MemClaimTarget(jobs, clock, types)
       IN  IF t = <<>>
              THEN /\ tx' = [tx EXCEPT ![w] = Settled("claim", types, 0, NullS, NoRet)]
                   /\ UNCHANGED <<jobs, hist>>
              ELSE LET claimed == MemClaimed(jobs[t[1]], w, clock)
                   IN  /\ jobs' = [jobs EXCEPT ![t[1]] = claimed]
                       /\ hist' = [hist EXCEPT ![t[1]].claims = @ + 1,
                                               ![t[1]].open = @ + 1]
                       /\ tx' = [tx EXCEPT ![w] =
                                   Settled("claim", types, claimed.job_id,
                                           NullS, Ret(claimed))]
    /\ UNCHANGED <<twin, conn, adapter, initialized, clock, last>>

(* MemoryAdapter.complete(jobId, result) *)
MemCompleteCall(w, id, result) ==
    /\ adapter = "memory"
    /\ tx[w].pc = "idle"
    /\ IF ~MemIsProcessing(jobs, id)
          THEN /\ tx' = [tx EXCEPT ![w] = Settled("complete", {}, id, NullS, NoRet)]
               /\ jobs' = jobs
          ELSE LET i == IndexOf(jobs, id)
                   updated == MemCompleted(jobs[i], result, clock)
               IN  /\ jobs' = [jobs EXCEPT ![i] = updated]
                   /\ tx' = [tx EXCEPT ![w] =
                               Settled("complete", {}, id, NullS, Ret(updated))]
    /\ UNCHANGED <<twin, conn, adapter, initialized, clock, last, hist>>

(* MemoryAdapter.fail(jobId, error) *)
MemFailCall(w, id, error) ==
    /\ adapter = "memory"
    /\ tx[w].pc = "idle"
    /\ IF ~MemIsProcessing(jobs, id)
          THEN /\ tx' = [tx EXCEPT ![w] = Settled("fail", {}, id, error, NoRet)]
               /\ UNCHANGED <<jobs, hist>>
          ELSE LET i == IndexOf(jobs, id)
                   updated == MemFailed(jobs[i], error, clock)
               IN  /\ jobs' = [jobs EXCEPT ![i] = updated]
                   /\ hist' = [hist EXCEPT ![i].open =
                                  IF updated.status = "pending" THEN 0 ELSE @,
                                           ![i].fails = @ + 1,
                                           ![i].errors = Append(@, error)]
                   /\ tx' = [tx EXCEPT ![w] =
                               Settled("fail", {}, id, error, Ret(updated))]
    /\ UNCHANGED <<twin, conn, adapter, initialized, clock, last>>

(* the continuation of w's await receives what the call returned *)
AwaitResumes(w) ==
    /\ tx[w].pc = "settled"
    /\ last' = Call(tx[w].op, tx[w].types, tx[w].job_id, w, tx[w].error, tx[w].ret)
    /\ tx' = [tx EXCEPT ![w] = NoTx]
    /\ UNCHANGED <<twin, conn, adapter, initialized, clock, jobs, hist>>

InitCoop ==
    /\ adapter = "memory"
    /\ conn = "new"
    /\ initialized = FALSE
    /\ twin = <<>>
    /\ clock = 0
    /\ jobs = <<>>
    /\ tx = [w \in Workers |-> NoTx]
    /\ last = ReturnedNull("init", {}, 0)
    /\ hist = <<>>

CoopPublish == \E input \in ConcInputs : PublishOp(CoopJobs, input)

CoopClaim == \E w \in Workers : MemClaimCall(w, {})

CoopComplete ==
    \E w \in Workers, id \in TargetIds, result \in Results :
        MemCompleteCall(w, id, result)

CoopFail ==
    \E w \in Workers, id \in TargetIds, error \in Errors : MemFailCall(w, id, error)

CoopResume == \E w \in Workers : AwaitResumes(w)

CoopTick == (\A w \in Workers : tx[w].pc = "idle") /\ TickOp(CoopMaxTime)

NextCoop ==
    \/ CoopPublish
    \/ CoopClaim
    \/ CoopComplete
    \/ CoopFail
    \/ CoopResume
    \/ CoopTick

SpecCoop == InitCoop /\ [][NextCoop]_vars

----------------------------------------------------------------------------
(* Workers at work: jobs are published, a worker keeps claiming without a   *)
(* type filter and reports every job it holds with complete or fail, and    *)
(* time advances up to LiveMaxTime.  A fail that requeues is taken only     *)
(* while its backoff ends within that time.                                 *)

LiveJobs == 1
LiveMaxTime == 90

\* the last clock value a tick reaches
LiveLastTime == (LiveMaxTime \div TickSeconds) * TickSeconds

LivePublish == \E input \in RetryInputs : PublishOp(LiveJobs, input)

LiveClaim == ClaimOp("w1", {})

\* the worker reports job i, which it holds
LiveReport(i) ==
    /\ i \in 1..Len(jobs)
    /\ jobs[i].status = "processing"
    /\ \/ \E result \in Results : CompleteOp(jobs[i].job_id, result)
       \/ /\ jobs[i].attempts < jobs[i].max_attempts =>
                clock + jobs[i].attempts * BackoffSeconds <= LiveLastTime
          /\ \E error \in Errors : FailOp(jobs[i].job_id, error)

LiveReports == \E i \in 1..LiveJobs : LiveReport(i)

LiveTick == TickOp(LiveMaxTime)

NextLive ==
    \/ LivePublish
    \/ LiveClaim
    \/ LiveReports
    \/ LiveTick

SpecLive ==
    /\ Init
    /\ [][NextLive]_vars
    /\ WF_vars(LiveTick)
    /\ WF_vars(LiveClaim)
    /\ \A i \in 1..LiveJobs : WF_vars(LiveReport(i))

----------------------------------------------------------------------------
(* Properties *)

Terminal == {"completed", "failed"}

\* the step just taken was a call of op that returned an envelope
StepReturned(op) == last'.op = op /\ last'.ret # NoRet

\* the step just taken was a complete or fail call
StepCompleteOrFail == last'.op \in {"complete", "fail"}

\* C3: every job starts pending and its status moves only along
\* pending -> processing (claim), processing -> completed (complete),
\* processing -> pending (fail, attempts < max_attempts) and
\* processing -> failed (fail, attempts >= max_attempts); the status is
\* always one of the four values.
C3_StatusEdges ==
    [][ /\ Len(jobs') >= Len(jobs)
        /\ \A i \in 1..Len(jobs') :
            /\ jobs'[i].status \in Statuses
            /\ IF i > Len(jobs)
                  THEN jobs'[i].status = "pending" /\ last'.op = "publish"
                  ELSE LET a == jobs[i]
                           b == jobs'[i]
                       IN  \/ b.status = a.status
                           \/ /\ a.status = "pending"
                              /\ b.status = "processing"
                              /\ last'.op = "claim"
                           \/ /\ a.status = "processing"
                              /\ b.status = "completed"
                              /\ last'.op = "complete"
                           \/ /\ a.status = "processing"
                              /\ b.status = "pending"
                              /\ last'.op = "fail"
                              /\ a.attempts < a.max_attempts
                           \/ /\ a.status = "processing"
                              /\ b.status = "failed"
                              /\ last'.op = "fail"
                              /\ a.attempts >= a.max_attempts ]_vars

\* a job went pending -> processing -> pending -> processing -> failed
C3_Witness ==
    \E i \in 1..Len(jobs) :
        /\ jobs[i].status = "failed"
        /\ jobs[i].attempts = 2
        /\ hist[i].fails = 2

\* C4: once a job is completed or failed, no later call changes any field of
\* its stored envelope.
C4_TerminalSinks ==
    [][ \A i \in 1..Len(jobs) :
            jobs[i].status \in Terminal =>
                (i <= Len(jobs') /\ jobs'[i] = jobs[i]) ]_vars

\* a fail call was just made on a completed job, at a later time
C4_Witness ==
    \E i \in 1..Len(jobs) :
        /\ jobs[i].status = "completed"
        /\ jobs[i].completed_at < clock
        /\ last.op = "fail"
        /\ last.job_id = jobs[i].job_id

\* C5: complete or fail on a job_id that is not stored, or whose job is not
\* processing, returns null and leaves every stored job unchanged.
C5_NotFound ==
    [][ LET i == IndexOf(jobs, last'.job_id)
        IN  (StepCompleteOrFail /\ (i = 0 \/ jobs[i].status # "processing"))
                => (last'.ret = NoRet /\ jobs' = jobs) ]_vars

\* a complete call was just made on a pending, requeued job while another
\* job is stored
C5_Witness ==
    /\ Len(jobs) = 2
    /\ last.op = "complete"
    /\ \E i \in 1..Len(jobs) :
          /\ last.job_id = jobs[i].job_id
          /\ jobs[i].status = "pending"
          /\ jobs[i].attempts = 1

\* C6: fail on a processing job returns the updated envelope; with
\* attempts >= max_attempts it is failed, failed_at = now, error = the error
\* passed, worker_id kept; otherwise it is pending, error = the error passed,
\* worker_id = null, failed_at unchanged.  Both adapters take the same branch.
C6_FailBranch ==
    [][ LET i == IndexOf(jobs, last'.job_id)
        IN  (last'.op = "fail" /\ i # 0 /\ jobs[i].status = "processing") =>
            LET a == jobs[i]
                b == jobs'[i]
            IN  /\ last'.ret = Ret(b)
                /\ b.error = last'.error
                /\ b.error \in Errors
                /\ IF a.attempts >= a.max_attempts
                      THEN /\ b.status = "failed"
                           /\ b.failed_at = clock
                           /\ b.worker_id = a.worker_id
                           /\ b.worker_id \in Workers
                      ELSE /\ b.status = "pending"
                           /\ b.worker_id = NullS
                           /\ b.failed_at = a.failed_at
                /\ MemFailed(a, last'.error, clock).status =
                       PgFailSet(a, last'.error, clock).status ]_vars

\* a fail call has just terminally failed a job it had requeued before
C6_Witness ==
    /\ last.op = "fail"
    /\ last.ret # NoRet
    /\ last.ret[1].status = "failed"
    /\ last.ret[1].worker_id \in Workers
    /\ \E i \in 1..Len(jobs) :
          jobs[i].job_id = last.job_id /\ hist[i].fails = 2

\* C10: a claim never returns a job whose scheduled_for is later than the
\* time of the claim, and it returns a job whenever one is pending with
\* scheduled_for <= now and a type the filter admits.
C10_ScheduleGate ==
    [][ last'.op = "claim" =>
            IF last'.ret # NoRet
               THEN LET i == IndexOf(jobs, last'.ret[1].job_id)
                    IN  /\ i # 0
                        /\ jobs[i].scheduled_for <= clock
                        /\ last'.ret[1].scheduled_for <= clock
               ELSE \A i \in 1..Len(jobs) :
                        ~ /\ jobs[i].status = "pending"
                          /\ jobs[i].scheduled_for <= clock
                          /\ (last'.types = {} \/ jobs[i].type \in last'.types)
      ]_vars

\* a job published with scheduled_for 60 s ahead was claimed once that time
\* had come
C10_Witness ==
    /\ last.op = "claim"
    /\ last.ret # NoRet
    /\ last.ret[1].scheduled_for = last.ret[1].created_at + 60
    /\ last.ret[1].started_at = last.ret[1].scheduled_for

\* C7: when fail requeues a job, the new scheduled_for is the time of the
\* fail call plus attempts x 30 seconds, attempts being the stored count
\* after the claim; attempts >= 1, so scheduled_for is later than that time.
C7_Backoff ==
    [][ (StepReturned("fail") /\ last'.ret[1].status = "pending") =>
            LET a == jobs[IndexOf(jobs, last'.job_id)]
                b == last'.ret[1]
            IN  /\ a.attempts >= 1
                /\ b.attempts = a.attempts
                /\ b.scheduled_for = clock + a.attempts * 30
                /\ b.scheduled_for > clock
                /\ jobs'[IndexOf(jobs, last'.job_id)] = b ]_vars

\* the second failed attempt of a job has just been requeued 60 s ahead
C7_Witness ==
    /\ last.op = "fail"
    /\ last.ret # NoRet
    /\ last.ret[1].status = "pending"
    /\ last.ret[1].attempts = 2
    /\ last.ret[1].scheduled_for = clock + 60

\* C8: a job published with max_attempts = M is claimed at most M times; as
\* long as every attempt ends in fail it is pending with attempts = k after
\* the k-th fail (k < M) and failed with attempts = M and the error of the
\* last fail after the M-th, having been claimed exactly M times.
C8_AttemptBudget ==
    \A i \in 1..Len(jobs) :
        LET j == jobs[i]
            h == hist[i]
        IN  /\ h.claims <= j.max_attempts
            /\ j.status = "pending" =>
                  /\ h.claims = h.fails
                  /\ j.attempts = h.fails
                  /\ h.fails < j.max_attempts
            /\ j.status = "failed" =>
                  /\ h.claims = j.max_attempts
                  /\ h.fails = j.max_attempts
                  /\ j.attempts = j.max_attempts
                  /\ j.error = h.errors[Len(h.errors)]

\* a job with the default budget of 3 was claimed three times and failed
\* three times, the last time with an error other than the one before
C8_Witness ==
    \E i \in 1..Len(jobs) :
        /\ jobs[i].status = "failed"
        /\ jobs[i].max_attempts = 3
        /\ jobs[i].attempts = 3
        /\ hist[i].claims = 3
        /\ jobs[i].error = "boom"
        /\ hist[i].errors = <<"boom", "bang", "boom">>

\* the jobs a claim with this type filter may take at this time
EligibleAt(store, now, types) ==
    { i \in 1..Len(store) :
        /\ store[i].status = "pending"
        /\ store[i].scheduled_for <= now
        /\ (types = {} \/ store[i].type \in types) }

\* C9: a successful claim returns, among the jobs eligible at the call
\* (pending, scheduled_for <= now, type in the filter if there is one), one of
\* maximal priority and, among those, one of minimal scheduled_for.
C9_ClaimOrder ==
    [][ StepReturned("claim") =>
            LET i == IndexOf(jobs, last'.ret[1].job_id)
                eligible == EligibleAt(jobs, clock, last'.types)
            IN  /\ i \in eligible
                /\ \A k \in eligible :
                      /\ jobs[k].priority <= jobs[i].priority
                      /\ jobs[k].priority = jobs[i].priority =>
                            jobs[k].scheduled_for >= jobs[i].scheduled_for ]_vars

\* jobs published together with priorities 0, 10, 5 were claimed by three
\* successive claims in the order 10, 5, 0
C9_Witness ==
    /\ Len(jobs) = 3
    /\ \A i \in 1..3 : jobs[i].created_at = 0 /\ jobs[i].status = "processing"
    /\ jobs[1].priority = 0 /\ jobs[1].started_at = 60
    /\ jobs[2].priority = 10 /\ jobs[2].started_at = 0
    /\ jobs[3].priority = 5 /\ jobs[3].started_at = 30

\* C1: on the Postgres adapter, whatever the interleaving of the workers'
\* calls, a job is handed out by at most one successful claim per pending
\* period: after a successful claim of a job no claim returns it again until
\* a fail call has requeued it.
C1_OneClaimPerPendingPeriod ==
    /\ \A i \in 1..Len(jobs) :
          /\ hist[i].open <= 1
          /\ hist[i].open = 1 <=> jobs[i].status \in {"processing"} \cup Terminal
    /\ \A v, w \in DOMAIN tx :
          (v # w /\ tx[v].pc = "locked" /\ tx[w].pc = "locked")
              => tx[v].target # tx[w].target

\* a job was claimed, requeued by fail and claimed again, and the claim of
\* another worker, whose snapshot still shows the job pending, is about to
\* examine it
C1_Witness ==
    \E i \in 1..Len(jobs), w \in Workers :
        /\ jobs[i].status = "processing"
        /\ hist[i].claims = 2
        /\ hist[i].fails = 1
        /\ tx[w].pc = "scan"
        /\ tx[w].cands # <<>>
        /\ Head(tx[w].cands) = i

\* the workers whose claim has returned a job
RaceWinners == { w \in DOMAIN tx : tx[w].pc = "done" /\ tx[w].ret # NoRet }

\* C2: with K concurrent claimers without type filter and N eligible jobs,
\* exactly min(K, N) claims return a job, each a different one; no claimer
\* ever waits for a row another claimer has locked, and a claimer that finds
\* no eligible unlocked row gets null.
C2_MinClaims ==
    LET K == Cardinality(DOMAIN tx)
        N == Cardinality({ i \in 1..Len(jobs) : jobs[i].scheduled_for <= clock })
    IN  /\ \A v, w \in RaceWinners :
              v # w => tx[v].ret[1].job_id # tx[w].ret[1].job_id
        /\ \A w \in RaceWinners :
              /\ tx[w].ret[1].scheduled_for <= clock
              /\ tx[w].ret[1].worker_id = w
              /\ tx[w].ret[1] = jobs[IndexOf(jobs, tx[w].ret[1].job_id)]
        /\ Cardinality(RaceWinners) <= Min(K, N)
        /\ (\A w \in DOMAIN tx : tx[w].pc = "done")
              => Cardinality(RaceWinners) = Min(K, N)
        /\ \A w \in DOMAIN tx :
              /\ tx[w].pc = "scan" => ENABLED PgClaimScan(w)
              /\ tx[w].pc = "locked" => ENABLED PgClaimCommit(w)

\* three claimers and two eligible jobs: all three claims have returned, two
\* with a job and one with null
C2_Witness ==
    /\ Cardinality(DOMAIN tx) = 3
    /\ Cardinality({ i \in 1..Len(jobs) : jobs[i].scheduled_for <= clock }) = 2
    /\ \A w \in DOMAIN tx : tx[w].pc = "done"
    /\ Cardinality(RaceWinners) = 2
    /\ \E w \in DOMAIN tx : tx[w].op = "claim" /\ tx[w].ret = NoRet


\* C11: a claim with a non-empty list of types returns only a job whose type
\* is in the list, and returns nothing exactly when no eligible job has such
\* a type, whatever eligible jobs of other types there are; a claim with the
\* empty list returns a job whenever any job is eligible.
C11_TypeFilter ==
    [][ last'.op = "claim" =>
            LET ofType == EligibleAt(jobs, clock, last'.types)
                anyType == EligibleAt(jobs, clock, {})
            IN  /\ last'.ret # NoRet =>
                      /\ IndexOf(jobs, last'.ret[1].job_id) \in ofType
                      /\ last'.types # {} => last'.ret[1].type \in last'.types
                /\ last'.ret = NoRet <=> ofType = {}
                /\ last'.types = {} => ofType = anyType ]_vars

\* a claim for type "y" has just returned nothing while a job of type "x"
\* is eligible
C11_Witness ==
    /\ last.op = "claim"
    /\ last.types = {"y"}
    /\ last.ret = NoRet
    /\ \E i \in EligibleAt(jobs, clock, {}) : jobs[i].type = "x"


\* the step is a claim that follows a publishJob call that returned, made
\* without scheduled_for on an empty queue, and whose filter admits the
\* published type
ClaimAfterPublish ==
    /\ last.op = "publishJob"
    /\ ~last.threw
    /\ last.input.scheduled_for = {}
    /\ Len(jobs) = 1
    /\ last'.op = "claim"
    /\ last'.types = {} \/ last.input.type \in last'.types

\* what the round trip keeps whatever the payload: ids, type, status,
\* attempts and the trace_id rule
RoundTripKept ==
    /\ last'.ret # NoRet
    /\ last'.ret[1].job_id = last.ret[1].job_id
    /\ last'.ret[1].trace_id = last.ret[1].trace_id
    /\ last'.ret[1].type = last.input.type
    /\ last'.ret[1].status = "processing"
    /\ last'.ret[1].attempts = 1
    /\ IF last.input.trace_id # {}
          THEN last'.ret[1].trace_id \in last.input.trace_id
          ELSE last'.ret[1].trace_id # ""

\* C12 as stated: after publishJob(input) has returned {job_id, trace_id} on
\* an empty queue, scheduled_for omitted, the next claim returns an envelope
\* with that job_id and trace_id, the type and payload of the input, status
\* processing and attempts 1, on either adapter; trace_id is the caller's
\* when given and a generated non-empty value otherwise.
C12_RoundTrip ==
    [][ ClaimAfterPublish =>
            /\ RoundTripKept
            /\ last'.ret[1].payload = last.input.payload ]_vars

\* C12 amended: the same, with the payload equal to the input on the
\* in-memory adapter and, on Postgres, whenever the payload is unchanged by a
\* round trip through JSON.
C12_RoundTripJson ==
    [][ ClaimAfterPublish =>
            /\ RoundTripKept
            /\ (adapter = "memory"
                    \/ JsonRoundTrip(last.input.payload) = last.input.payload)
                  => last'.ret[1].payload = last.input.payload ]_vars

\* on the in-memory adapter a job published with trace_id "t1" and a Date
\* in its payload has just been claimed, for the first time, with nothing
\* else in the queue
C12_Witness ==
    /\ adapter = "memory"
    /\ Len(jobs) = 1
    /\ last.op = "claim"
    /\ last.ret # NoRet
    /\ last.ret[1].trace_id = "t1"
    /\ last.ret[1].payload = DatePayload
    /\ last.ret[1].attempts = 1
    /\ last.ret[1].scheduled_for = last.ret[1].created_at


\* the input of the call just made is one the schemas must reject: a publish
\* with an empty type, a payload that is not a map, a priority that is not an
\* integer or a max_attempts that is not positive; a complete with a job_id
\* that is not a UUID; a fail with such a job_id or an empty error
RejectedInput ==
    \/ /\ last'.op = "publishJob"
       /\ \/ last'.input.type = ""
          \/ last'.input.payload.kind # "object"
          \/ \E p \in last'.input.priority : p.num % p.den # 0
          \/ \E m \in last'.input.max_attempts : m.num <= 0
    \/ /\ last'.op = "completeJob"
       /\ last'.input.job_id = NotAUuid
    \/ /\ last'.op = "failJob"
       /\ last'.input.job_id = NotAUuid \/ last'.input.error = ""

\* C13: a publish, complete or fail call whose input fails validation throws
\* and leaves the stored jobs, and every field of each, as they were.
C13_ValidationNoChange ==
    [][ RejectedInput =>
            /\ last'.threw
            /\ last'.ret = NoRet
            /\ jobs' = jobs ]_vars

\* a publish with max_attempts 0 has just thrown while a processing job is
\* stored
C13_Witness ==
    /\ last.op = "publishJob"
    /\ last.threw
    /\ last.input.max_attempts = {Num(0, 1)}
    /\ Len(jobs) = 1
    /\ jobs[1].status = "processing"


\* the step is a call of op, with valid input, on a job that is processing
StepOnProcessing(op) ==
    /\ last'.op = op
    /\ last'.input.job_id \in JobIds(jobs)
    /\ jobs[IndexOf(jobs, last'.input.job_id)].status = "processing"
    /\ op = "failJob" => last'.input.error # ""

\* C14: completeJob on a processing job returns a ResultEnvelope with the
\* job's job_id, trace_id and type, status completed, the result the caller
\* passed (absent if none) and the completed_at that was stored; on either
\* adapter, while Postgres stores no result and the in-memory adapter stores
\* the result or null.
C14_CompleteResult ==
    [][ StepOnProcessing("completeJob") =>
            LET i == IndexOf(jobs, last'.input.job_id)
                a == jobs[i]
                b == jobs'[i]
            IN  /\ ~last'.threw
                /\ last'.ret # NoRet
                /\ last'.ret[1].job_id = a.job_id
                /\ last'.ret[1].trace_id = a.trace_id
                /\ last'.ret[1].type = a.type
                /\ last'.ret[1].status = "completed"
                /\ last'.ret[1].error = Absent
                /\ IF last'.input.result = {}
                      THEN last'.ret[1].result = Absent
                      ELSE last'.ret[1].result \in last'.input.result
                /\ b.status = "completed"
                /\ b.completed_at = clock
                /\ last'.ret[1].completed_at = b.completed_at
                /\ adapter = "postgres" => b.result = Absent
                /\ adapter = "memory" =>
                      b.result = OrElse(last'.input.result, NullS) ]_vars

\* on Postgres completeJob has just returned the result "r1" it was given,
\* and the stored row holds no result
C14_Witness ==
    /\ adapter = "postgres"
    /\ last.op = "completeJob"
    /\ last.ret # NoRet
    /\ last.ret[1].result = "r1"
    /\ jobs[1].status = "completed"
    /\ jobs[1].result = Absent

C16_TerminalAttempts ==
    \A i \in 1..Len(jobs) :
        jobs[i].status \in Terminal => jobs[i].attempts <= jobs[i].max_attempts

\* a job with max_attempts 2 was claimed, failed, claimed again and completed
C16_Witness ==
    \E i \in 1..Len(jobs) :
        /\ jobs[i].status = "completed"
        /\ jobs[i].max_attempts = 2
        /\ jobs[i].attempts = 2
        /\ hist[i].fails = 1

\* C17: every processing job has a worker_id, the worker name given to the
\* claim that made it processing, and a started_at, the time of that claim;
\* both stay as they are while the job is processing.
C17_ProcessingHasWorker ==
    [][ \A i \in 1..Len(jobs') :
            jobs'[i].status = "processing" =>
                /\ jobs'[i].worker_id # NullS
                /\ jobs'[i].started_at # NullT
                /\ i <= Len(jobs)
                /\ IF jobs[i].status = "processing"
                      THEN /\ jobs'[i].worker_id = jobs[i].worker_id
                           /\ jobs'[i].started_at = jobs[i].started_at
                      ELSE /\ last'.op = "claim"
                           /\ jobs'[i].worker_id = last'.worker
                           /\ jobs'[i].started_at = clock ]_vars

\* a job that had been claimed and requeued before is processing for worker
\* "w2"
C17_Witness ==
    \E i \in 1..Len(jobs) :
        /\ jobs[i].status = "processing"
        /\ jobs[i].worker_id = "w2"
        /\ jobs[i].attempts = 2
        /\ jobs[i].started_at = 30

\* C18: completed_at is set exactly on completed jobs and failed_at exactly
\* on failed jobs; a requeued job has failed_at = null.
C18_TerminalStamps ==
    \A i \in 1..Len(jobs) :
        /\ jobs[i].completed_at # NullT <=> jobs[i].status = "completed"
        /\ jobs[i].failed_at # NullT <=> jobs[i].status = "failed"

\* a job that failed one attempt is pending again, and a job is completed
C18_Witness ==
    \E i, k \in 1..Len(jobs) :
        /\ jobs[i].status = "pending"
        /\ hist[i].fails = 1
        /\ jobs[i].error # NullS
        /\ jobs[k].status = "completed"

\* C19 as stated: worker_id is set exactly on processing jobs, except that a
\* failed job keeps its worker_id; pending and completed jobs have none.
C19_WorkerIffProcessing ==
    \A i \in 1..Len(jobs) :
        /\ jobs[i].status = "processing" => jobs[i].worker_id # NullS
        /\ jobs[i].status = "failed" => jobs[i].worker_id # NullS
        /\ jobs[i].status = "pending" => jobs[i].worker_id = NullS
        /\ jobs[i].status = "completed" => jobs[i].worker_id = NullS

\* C19 amended: worker_id is null exactly on pending jobs; a completed job
\* and a failed job keep the worker_id of their last claim.
C19_WorkerIffClaimed ==
    \A i \in 1..Len(jobs) :
        /\ jobs[i].worker_id = NullS <=> jobs[i].status = "pending"
        /\ jobs[i].status \in Terminal => jobs[i].worker_id \in Workers

\* a completed job that holds a worker_id next to a requeued job that holds
\* none
C19_Witness ==
    \E i, k \in 1..Len(jobs) :
        /\ jobs[i].status = "completed"
        /\ jobs[i].worker_id = "w1"
        /\ jobs[k].status = "pending"
        /\ jobs[k].attempts = 1
        /\ jobs[k].worker_id = NullS

\* C20: every stored job has scheduled_for >= created_at.
C20_ScheduledAfterCreated ==
    \A i \in 1..Len(jobs) : jobs[i].scheduled_for >= jobs[i].created_at


----------------------------------------------------------------------------
\* C21 as stated: no adapter operation, close included, removes a stored
\* job: the set of stored job_ids only grows.
C21_NeverDeleted ==
    [][JobIds(jobs) \subseteq JobIds(jobs')]_vars

\* C21: no adapter operation removes a stored job, except close of the
\* in-memory adapter, which discards every stored job; on the durable
\* adapter the stored job_ids only grow, over close as well.
C21_NeverDeletedButMemClose ==
    [][IF adapter = "memory" /\ last'.op = "close"
          THEN jobs' = <<>>
          ELSE JobIds(jobs) \subseteq JobIds(jobs')]_vars

\* the durable adapter was closed with two jobs stored, one of them claimed
C21_Witness ==
    /\ adapter = "postgres"
    /\ conn = "closed"
    /\ last.op = "close"
    /\ Len(jobs) = 2
    /\ \E i \in 1..Len(jobs) : jobs[i].status # "pending"


----------------------------------------------------------------------------
\* two statements of one kind that different workers sent for the same row
\* while it was processing, both finished
BothDone(w, v, ops) ==
    /\ w # v
    /\ tx[w].pc = "done" /\ tx[v].pc = "done"
    /\ tx[w].op \in ops /\ tx[v].op \in ops
    /\ tx[w].target # 0 /\ tx[w].target = tx[v].target

\* C22: of two complete calls that were sent for the same job while it was
\* processing, exactly one returns an envelope and the other returns
\* nothing, and the job is completed once: the stored row is the one the
\* winner wrote and returned.
C22_OneCompleteWins ==
    \A w, v \in DOMAIN tx :
        BothDone(w, v, {"complete"}) =>
            /\ (tx[w].ret = NoRet) # (tx[v].ret = NoRet)
            /\ \A u \in {w, v} :
                  tx[u].ret # NoRet =>
                      /\ jobs[tx[u].target] = tx[u].ret[1]
                      /\ tx[u].ret[1].status = "completed"
                      /\ tx[u].ret[1].completed_at = tx[u].now

\* both completes were sent at time 0 on the processing job, the winner
\* returned it completed and the other returned nothing
C22_Witness ==
    /\ BothDone("w1", "w2", {"complete"})
    /\ tx["w1"].now = 0 /\ tx["w2"].now = 0
    /\ tx["w1"].ret = NoRet
    /\ tx["w2"].ret # NoRet
    /\ jobs[tx["w2"].target].status = "completed"


----------------------------------------------------------------------------
\* the two workers' calls have both returned
PairDone == \A w \in Workers : tx[w].pc = "done"

\* the call of w succeeded on the job with this id
Won(w, id) == tx[w].ret # NoRet /\ tx[w].ret[1].job_id = id

\* the call of w concerns the job with this id: a complete or fail that was
\* given the id, or a claim when it is the only stored job
Targets(w, id) ==
    \/ tx[w].op \in {"complete", "fail"} /\ tx[w].job_id = id
    \/ tx[w].op = "claim" /\ JobIds(jobs) = {id}

\* C23 as stated: of any two concurrent calls drawn from claim, complete
\* and fail that target the same job_id, exactly one succeeds.
C23_OneWinner ==
    PairDone =>
        \A id \in JobIds(jobs) :
            (Targets("w1", id) /\ Targets("w2", id)) =>
                (Won("w1", id) # Won("w2", id))

\* C23: of two concurrent calls drawn from complete and fail that were
\* given the same job_id, exactly one succeeds when the job was processing
\* as they were sent, and it wrote the stored row; none succeeds otherwise.
\* Two concurrent claims never both return the job.
C23_OneWinnerSameGuard ==
    PairDone =>
        \A id \in JobIds(jobs) :
            /\ (/\ tx["w1"].op \in {"complete", "fail"}
                /\ tx["w2"].op \in {"complete", "fail"}
                /\ tx["w1"].job_id = id /\ tx["w2"].job_id = id)
               => IF tx["w1"].target # 0 \/ tx["w2"].target # 0
                     THEN /\ Won("w1", id) # Won("w2", id)
                          /\ \A w \in Workers :
                                Won(w, id) => jobs[tx[w].target] = tx[w].ret[1]
                     ELSE ~Won("w1", id) /\ ~Won("w2", id)
            /\ (tx["w1"].op = "claim" /\ tx["w2"].op = "claim")
               => ~(Won("w1", id) /\ Won("w2", id))

\* a complete and a fail were sent for the processing job, the fail was
\* applied first and requeued it, and the complete returned nothing
C23_Witness ==
    /\ PairDone
    /\ tx["w1"].op = "complete" /\ tx["w2"].op = "fail"
    /\ tx["w1"].target # 0 /\ tx["w1"].target = tx["w2"].target
    /\ tx["w1"].ret = NoRet
    /\ Won("w2", tx["w2"].job_id)
    /\ jobs[tx["w2"].target].status = "pending"


----------------------------------------------------------------------------
\* what a caller compares of an envelope
Observed(e) ==
    [ status |-> e.status, attempts |-> e.attempts,
      max_attempts |-> e.max_attempts, priority |-> e.priority,
      type |-> e.type, payload |-> e.payload, error |-> e.error,
      worker_id |-> e.worker_id, started |-> e.started_at # NullT,
      completed |-> e.completed_at # NullT, failed |-> e.failed_at # NullT ]

\* the same with the payload as it reads after a JSON round trip
ObservedJson(e) == [Observed(e) EXCEPT !.payload = JsonRoundTrip(@)]

\* C24 as stated: side by side, both adapters return the same job or both
\* nothing, and the returned envelopes agree on status, attempts,
\* max_attempts, priority, type, payload, error, worker_id and on which of
\* started_at, completed_at, failed_at are null.
C24_SameObservable ==
    /\ (last.mem = NoRet) = (last.pg = NoRet)
    /\ last.mem # NoRet =>
          /\ IndexOf(jobs, last.mem[1].job_id) = IndexOf(twin, last.pg[1].job_id)
          /\ Observed(last.mem[1]) = Observed(last.pg[1])

\* C24: side by side, both adapters return the same job or both nothing,
\* the returned envelopes agree on the listed fields with the payload
\* compared after a JSON round trip, and so do the two stores job by job.
C24_SameObservableJson ==
    /\ (last.mem = NoRet) = (last.pg = NoRet)
    /\ last.mem # NoRet =>
          /\ IndexOf(jobs, last.mem[1].job_id) = IndexOf(twin, last.pg[1].job_id)
          /\ ObservedJson(last.mem[1]) = Observed(last.pg[1])
    /\ Len(jobs) = Len(twin)
    /\ \A k \in 1..Len(jobs) : ObservedJson(jobs[k]) = Observed(twin[k])

\* the job with the Date payload was claimed, failed and requeued, claimed
\* again and failed for good on both adapters
C24_Witness ==
    /\ last.op = "fail"
    /\ last.mem # NoRet /\ last.pg # NoRet
    /\ last.mem[1].payload = DatePayload
    /\ last.pg[1].payload = JsonRoundTrip(DatePayload)
    /\ last.mem[1].status = "failed" /\ last.pg[1].status = "failed"
    /\ last.mem[1].attempts = 2 /\ last.pg[1].attempts = 2


----------------------------------------------------------------------------
\* C25: QueueClient.completeJob and QueueClient.failJob called with a
\* workerId for a job that is not stored, or whose worker_id is another
\* worker's, return null (or throw) and leave the job as it was.
C25_OwnerOnly ==
    [][last'.op \in {"QueueClient.completeJob", "QueueClient.failJob",
                     "legacy.completeJob", "legacy.failJob"}
       => LET i == IndexOf(jobs, last'.input.jobId)
          IN  (i = 0 \/ jobs[i].worker_id # last'.input.workerId)
              => /\ last'.ret = NoRet
                 /\ jobs' = jobs]_vars


----------------------------------------------------------------------------
\* C26: the ResultEnvelope that failJob returns carries the status the job
\* has in the store after the call: pending when the fail requeued it,
\* failed when it was terminal.
C26_FailResultStoredStatus ==
    (last.op = "failJob" /\ last.ret # NoRet) =>
        last.ret[1].status = jobs[IndexOf(jobs, last.ret[1].job_id)].status


----------------------------------------------------------------------------
\* C27: a claim that returns job J to worker W sets J's status to
\* processing, adds 1 to attempts, sets started_at and updated_at to now and
\* worker_id to W, and changes no other field of J and no other job; a claim
\* that returns nothing changes no job.
C27_ClaimFrame ==
    [][last'.op = "claim" =>
          IF last'.ret = NoRet
             THEN jobs' = jobs
             ELSE \E i \in 1..Len(jobs) :
                     /\ jobs[i].job_id = last'.ret[1].job_id
                     /\ jobs[i].status = "pending"
                     /\ jobs' = [jobs EXCEPT ![i] =
                                   [jobs[i] EXCEPT
                                      !.status = "processing",
                                      !.attempts = jobs[i].attempts + 1,
                                      !.started_at = clock,
                                      !.updated_at = clock,
                                      !.worker_id = last'.worker]]
                     /\ last'.ret[1] = jobs'[i]]_vars

\* a requeued job that carries the error of its failure was claimed again,
\* 30 s later, next to a second stored job
C27_Witness ==
    /\ last.op = "claim"
    /\ last.ret # NoRet
    /\ last.ret[1].error = "boom"
    /\ last.ret[1].attempts = 2
    /\ last.ret[1].scheduled_for = 30
    /\ last.ret[1].started_at > 0
    /\ Len(jobs) = 2

----------------------------------------------------------------------------
\* C28: no call changes the job_id, trace_id, type, payload, priority,
\* max_attempts or created_at of a stored job, and no two stored jobs have
\* the same job_id.
C28_Immutable ==
    [][/\ Len(jobs') >= Len(jobs)
       /\ \A i \in 1..Len(jobs) :
             /\ jobs'[i].job_id = jobs[i].job_id
             /\ jobs'[i].trace_id = jobs[i].trace_id
             /\ jobs'[i].type = jobs[i].type
             /\ jobs'[i].payload = jobs[i].payload
             /\ jobs'[i].priority = jobs[i].priority
             /\ jobs'[i].max_attempts = jobs[i].max_attempts
             /\ jobs'[i].created_at = jobs[i].created_at
       /\ \A i, k \in 1..Len(jobs') :
             i # k => jobs'[i].job_id # jobs'[k].job_id]_vars

\* two jobs published at different times, one completed after time passed
\* and one failed for good
C28_Witness ==
    /\ Len(jobs) = 2
    /\ jobs[1].created_at # jobs[2].created_at
    /\ \E i, k \in 1..2 :
          /\ jobs[i].status = "completed"
          /\ jobs[i].completed_at > jobs[i].created_at
          /\ jobs[k].status = "failed"

----------------------------------------------------------------------------
\* C29: attempts of a job never decreases, changes only in a claim that
\* returns the job, is 0 when the job is published, and always equals the
\* number of claims that returned the job.
C29_AttemptsCountClaims ==
    [][/\ \A i \in 1..Len(jobs) :
             /\ jobs'[i].attempts >= jobs[i].attempts
             /\ jobs'[i].attempts # jobs[i].attempts =>
                   /\ StepReturned("claim")
                   /\ last'.ret[1].job_id = jobs[i].job_id
       /\ \A i \in 1..Len(jobs') :
             /\ jobs'[i].attempts = hist'[i].claims
             /\ i > Len(jobs) => jobs'[i].attempts = 0]_vars

\* a job was claimed twice and failed twice
C29_Witness ==
    \E i \in 1..Len(jobs) :
        /\ jobs[i].attempts = 2
        /\ hist[i].claims = 2
        /\ hist[i].fails = 2
        /\ jobs[i].status = "failed"

----------------------------------------------------------------------------
\* the step just taken was a complete or fail that returned this job
StepReleased(job) ==
    /\ StepCompleteOrFail
    /\ last'.ret # NoRet
    /\ last'.job_id = job.job_id

\* C30: a processing job on which no complete or fail is called stays
\* processing and unchanged: no claim returns it, and neither now nor after
\* any of the backoff delays does a claim find it eligible.
C30_StuckStaysProcessing ==
    [][\A i \in 1..Len(jobs) :
          (jobs[i].status = "processing" /\ ~StepReleased(jobs[i])) =>
              /\ jobs'[i] = jobs[i]
              /\ StepReturned("claim") => last'.ret[1].job_id # jobs[i].job_id
              /\ \A k \in 0..DefaultMaxAttempts, types \in TypeFilters :
                    i \notin ClaimTargets(jobs, clock + k * BackoffSeconds,
                                          types)]_vars

\* a job claimed at time 0 is still processing 60 s later, when a claim
\* without a type filter returned nothing
C30_Witness ==
    /\ clock = 60
    /\ last.op = "claim" /\ last.ret = NoRet /\ last.types = {}
    /\ \E i \in 1..Len(jobs) :
          /\ jobs[i].status = "processing"
          /\ jobs[i].started_at = 0


----------------------------------------------------------------------------
\* C33: the error of a job is null while no fail of it has succeeded and is
\* the error given to the most recent successful fail afterwards; claim and
\* complete never reset it.
C33_ErrorIsLastFailure ==
    \A i \in 1..Len(jobs) :
        jobs[i].error = IF hist[i].errors = <<>>
                            THEN NullS
                            ELSE hist[i].errors[Len(hist[i].errors)]

\* a job failed with "boom", then with "bang", was claimed a third time and
\* completed: it still carries "bang"
C33_Witness ==
    \E i \in 1..Len(jobs) :
        /\ jobs[i].status = "completed"
        /\ hist[i].errors = <<"boom", "bang">>
        /\ jobs[i].error = "bang"
        /\ jobs[i].attempts = 3

----------------------------------------------------------------------------
\* C34: every pending job has attempts < max_attempts and no worker_id, and
\* started_at is set exactly for the jobs that were claimed at least once.
C34_PendingWithinBudget ==
    \A i \in 1..Len(jobs) :
        /\ jobs[i].status = "pending" =>
              /\ jobs[i].attempts < jobs[i].max_attempts
              /\ jobs[i].worker_id = NullS
        /\ (jobs[i].started_at # NullT) = (jobs[i].attempts >= 1)

\* a job that was claimed, failed and requeued: pending with one attempt
\* used, its started_at kept and its worker_id cleared
C34_Witness ==
    \E i \in 1..Len(jobs) :
        /\ jobs[i].status = "pending"
        /\ jobs[i].attempts = 1
        /\ jobs[i].started_at # NullT
        /\ jobs[i].worker_id = NullS
        /\ jobs[i].error # NullS


----------------------------------------------------------------------------
\* C31: with time advancing, a worker that keeps claiming without a type
\* filter and every claimed job reported with complete or fail, every
\* published job eventually is completed or failed, after at most
\* max_attempts claims of it.
C31_EveryJobEnds ==
    \A i \in 1..LiveJobs :
        (Len(jobs) >= i) ~>
            (/\ Len(jobs) >= i
             /\ jobs[i].status \in Terminal
             /\ hist[i].claims >= 1
             /\ hist[i].claims <= jobs[i].max_attempts)

\* a job with the default budget of 3 failed for good on its third claim,
\* after both backoffs had elapsed
C31_Witness ==
    \E i \in 1..Len(jobs) :
        /\ jobs[i].status = "failed"
        /\ jobs[i].max_attempts = 3
        /\ hist[i].claims = 3
        /\ hist[i].fails = 3


----------------------------------------------------------------------------
\* C32: once an initialize has succeeded its flag is set and stays set, and
\* an initialize that finds its flag set sends no statement; a bootstrap
\* query that fails leaves both flags as they were, and an initialize that
\* finds the flags unset sends the bootstrap, also while the bootstrap of
\* another call is still out.
C32_InitializeSequenced ==
    [][\A w \in Workers :
          /\ BootstrapReturns(w, TRUE) => conn' = "ready"
          /\ QueueClientInitialized(w) => initialized'
          /\ conn = "ready" => conn' = "ready"
          /\ initialized => initialized'
          /\ (PostgresAdapterInitializeOp(w) /\ conn = "ready") =>
                UNCHANGED <<tx, jobs, conn>>
          /\ (QueueClientInitializeOp(w) /\ initialized) =>
                UNCHANGED <<tx, jobs, conn>>
          /\ BootstrapReturns(w, FALSE) =>
                /\ conn' = conn
                /\ initialized' = initialized
                /\ tx'[w] = NoTx
          /\ (/\ PostgresAdapterInitializeOp(w) \/ QueueClientInitializeOp(w)
              /\ adapter = "postgres"
              /\ conn = "new"
              /\ ~initialized) =>
                tx'[w].pc = "boot"
      ]_vars

\* after one bootstrap failed, two initialize calls overlap: both have sent
\* the bootstrap and neither has returned
C32_Witness ==
    /\ \A w \in Workers : tx[w].pc = "boot"
    /\ conn = "new"
    /\ last = Rejected("initialize")


----------------------------------------------------------------------------
\* C35: on the in-memory adapter two calls that overlap (neither await has
\* resumed) act as whole operations one after the other: two overlapping
\* claims never hold the same job, a complete of a processing job returns
\* it, and a complete that overlaps an earlier complete of the same job
\* that returned it returns null.
C35_WholeOperations ==
    [][\A w \in Workers : \A v \in Workers \ {w} :
          /\ (/\ tx'[w].pc = "settled" /\ tx'[w].op = "claim"
              /\ tx'[v].pc = "settled" /\ tx'[v].op = "claim"
              /\ tx'[w].ret # NoRet
              /\ tx'[v].ret # NoRet) =>
                tx'[w].job_id # tx'[v].job_id
          /\ \A id \in TargetIds, result \in Results :
                MemCompleteCall(w, id, result) =>
                   /\ (tx'[w].ret # NoRet) = (IndexOf(jobs, id) # 0 /\
                         jobs[IndexOf(jobs, id)].status = "processing")
                   /\ (/\ tx[v].pc = "settled"
                       /\ tx[v].op = "complete"
                       /\ tx[v].job_id = id
                       /\ tx[v].ret # NoRet) => tx'[w].ret = NoRet
      ]_vars

\* two completes of one job overlap: exactly one of them returned the job
C35_Witness ==
    /\ tx["w1"].pc = "settled" /\ tx["w1"].op = "complete"
    /\ tx["w2"].pc = "settled" /\ tx["w2"].op = "complete"
    /\ tx["w1"].job_id = tx["w2"].job_id
    /\ tx["w1"].ret # NoRet
    /\ tx["w2"].ret = NoRet

====
